---- MODULE Spec2Model ----
(***************************************************************************)
(* A model of the printer of prettier-plugin-edgejs: the Printer class     *)
(* (print.ts), the helpers of utils.ts and the print entry point.          *)
(* Strings are TLA+ strings; the string helpers below compute what the     *)
(* JavaScript string methods and regular expressions of the source do.     *)
(* The Printer is the class that constructs with (options) alone; formatJS *)
(* and formatCss are the four-argument versions that this Printer calls.   *)
(* The later formatJS and formatCss, which take (options, levelOverride)   *)
(* as well and hide control blocks, are modelled as formatJSBlocks and     *)
(* formatCssBlocks and run on their own.                                   *)
(***************************************************************************)
EXTENDS Integers, Sequences, FiniteSets, TLC

VARIABLES
    consecutiveCount,   \* utils.ts: module-level counter of filterLineBreaks
    level,              \* Printer.level of the Printer of the current call
    opts,               \* the options of the current call
    root,               \* the node handed to print
    kept,               \* node.children.filter(filterLineBreaks)
    idx,                \* index (1-based) of the next child .map will print
    parts,              \* the strings .map has produced so far
    lvls,               \* Printer.level as it was before each printed child
    inds,               \* per printed child: the level its own leading indent was computed from
    result,             \* the text print returned
    pc,                 \* "idle" | "constructed" | "children" | "done" | "failed";
                        \* "tracker", "spacing", "embedded" | "formatted" in the runs of
                        \* the parts on their own
    calls,              \* number of print calls started so far
    prevLevel,          \* Printer.level of the previous call's Printer when it ended
    gi,                 \* last getIndent call of the indentation tracker run
    foreign,            \* what the node printed last asked of uglifyjs.minify / css.parse
    sIn,                \* the string handed to a spacing rule
    sRule,              \* the spacing rule applied to it last
    sOut,               \* what that rule returned
    embedded            \* the run of the later formatJS / formatCss on its own

vars == <<consecutiveCount, level, opts, root, kept, idx, parts, lvls, inds,
          result, pc, calls, prevLevel, gi, foreign, sIn, sRule, sOut, embedded>>

\* the variables of the spacing rules run on their own
spacing == <<sIn, sRule, sOut>>

-----------------------------------------------------------------------------
(* Bounds of the model *)

\* longest child sequence of the documents made of line breaks and text
MaxBreakLen == 5
\* longest child sequence of the documents made of control-block tags and text
MaxLen == 4
\* longest child sequence of the documents made of markup tags, text and interpolations
MaxTagLen == 2
\* print calls made one after the other in one process
MaxCalls == 2
\* longest run of LineBreak children on either side of the content of a block element
MaxBreaks == 1
\* longest run of whitespace behind an opening and before a closing delimiter
MaxWs == 2
\* largest absolute value of Printer.level in the run of the indentation tracker alone
MaxLevel == 3

-----------------------------------------------------------------------------
(* JavaScript string primitives *)

Max(a, b) == IF a >= b THEN a ELSE b

CharAt(s, i) == SubSeq(s, i, i)

\* the characters \s matches and trim() removes (of those the model uses)
IsWs(c) == c \in {" ", "\t", "\n", "\r"}

\* s.substring(i-1, i-1+n) compared with sub
At(s, i, sub) == i >= 1 /\ i + Len(sub) - 1 <= Len(s) /\ SubSeq(s, i, i + Len(sub) - 1) = sub

Includes(s, sub) == \E i \in 1..(Len(s) + 1) : At(s, i, sub)

StartsWith(s, sub) == At(s, 1, sub)

\* the least element of a set of indices; 0 when there is none
Least(K) == IF K = {} THEN 0 ELSE CHOOSE k \in K : \A m \in K : k <= m

\* s.indexOf(sub) + 1 from position i on; 0 when absent
IndexFrom(s, sub, i) == Least({k \in i..(Len(s) - Len(sub) + 1) : At(s, k, sub)})

RECURSIVE Repeat(_, _)
Repeat(c, n) == IF n <= 0 THEN "" ELSE c \o Repeat(c, n - 1)

\* index of the first character at or after i that is not whitespace
RECURSIVE SkipWs(_, _)
SkipWs(s, i) == IF i <= Len(s) /\ IsWs(CharAt(s, i)) THEN SkipWs(s, i + 1) ELSE i

RECURSIVE TrimEnd(_)
TrimEnd(s) ==
    IF Len(s) > 0 /\ IsWs(CharAt(s, Len(s))) THEN TrimEnd(SubSeq(s, 1, Len(s) - 1)) ELSE s

TrimStart(s) == SubSeq(s, SkipWs(s, 1), Len(s))

Trim(s) == TrimEnd(TrimStart(s))

\* s.split("\n")
RECURSIVE Split(_)
Split(s) ==
    LET k == IndexFrom(s, "\n", 1)
    IN  IF k = 0 THEN <<s>>
        ELSE <<SubSeq(s, 1, k - 1)>> \o Split(SubSeq(s, k + 1, Len(s)))

\* array.join(sep)
RECURSIVE Join(_, _)
Join(a, sep) ==
    IF Len(a) = 0 THEN ""
    ELSE IF Len(a) = 1 THEN a[1]
    ELSE a[1] \o sep \o Join(Tail(a), sep)

\* s.replace(/[\r\n]+/g, "")
RECURSIVE StripNewlines(_)
StripNewlines(s) ==
    IF Len(s) = 0 THEN ""
    ELSE IF CharAt(s, 1) \in {"\n", "\r"} THEN StripNewlines(SubSeq(s, 2, Len(s)))
    ELSE CharAt(s, 1) \o StripNewlines(SubSeq(s, 2, Len(s)))

\* s.replace(/[^\S\r\n]+$/g, ""): the blanks and tabs at the very end
RECURSIVE StripTrailingBlanks(_)
StripTrailingBlanks(s) ==
    IF Len(s) > 0 /\ CharAt(s, Len(s)) \in {" ", "\t"}
    THEN StripTrailingBlanks(SubSeq(s, 1, Len(s) - 1))
    ELSE s

\* the replacement text of s.replace(sub, by) when by is a string: "$$" stands for "$",
\* "$&" for the match, "$`" for the text before it and "$'" for the text behind it
RECURSIVE Substitution(_, _, _, _, _)
Substitution(by, i, before, matched, after) ==
    IF i > Len(by) THEN ""
    ELSE IF At(by, i, "$$") THEN "$" \o Substitution(by, i + 2, before, matched, after)
    ELSE IF At(by, i, "$&") THEN matched \o Substitution(by, i + 2, before, matched, after)
    ELSE IF At(by, i, "$`") THEN before \o Substitution(by, i + 2, before, matched, after)
    ELSE IF At(by, i, "$'") THEN after \o Substitution(by, i + 2, before, matched, after)
    ELSE CharAt(by, i) \o Substitution(by, i + 1, before, matched, after)

\* s.replace(sub, by), k being s.indexOf(sub) + 1
ReplaceAt(s, sub, by, k) ==
    IF k = 0 THEN s
    ELSE SubSeq(s, 1, k - 1)
            \o Substitution(by, 1, SubSeq(s, 1, k - 1), sub, SubSeq(s, k + Len(sub), Len(s)))
            \o SubSeq(s, k + Len(sub), Len(s))

\* s.replace(sub, by) with a string pattern: the first occurrence only
ReplaceFirst(s, sub, by) == ReplaceAt(s, sub, by, IndexFrom(s, sub, 1))

countLeadingSpaces(value) == SkipWs(value, 1) - 1

-----------------------------------------------------------------------------
(* utils.ts: the spacing rules *)

\* a variant of SpaceAfter that keeps the whitespace it finds behind the delimiter
RECURSIVE SpaceAfterKeep(_, _, _)
SpaceAfterKeep(s, open, i) ==
    IF i > Len(s) THEN ""
    ELSE IF At(s, i, open) THEN open \o " " \o SpaceAfterKeep(s, open, i + Len(open))
    ELSE CharAt(s, i) \o SpaceAfterKeep(s, open, i + 1)

\* value.replace(/<open>\s*/g, open + " ") for open = "{{" or "{{{"
RECURSIVE SpaceAfter(_, _, _)
SpaceAfter(s, open, i) ==
    IF i > Len(s) THEN ""
    ELSE IF At(s, i, open) THEN open \o " " \o SpaceAfter(s, open, SkipWs(s, i + Len(open)))
    ELSE CharAt(s, i) \o SpaceAfter(s, open, i + 1)

\* value.replace(/\s*<close>/g, " " + close) for close = "}}" or "}}}"
RECURSIVE SpaceBefore(_, _, _)
RECURSIVE SpaceBeforeAt(_, _, _, _)
SpaceBeforeAt(s, close, i, j) ==
    IF At(s, j, close)
    THEN " " \o close \o SpaceBefore(s, close, j + Len(close))
    ELSE CharAt(s, i) \o SpaceBefore(s, close, i + 1)

SpaceBefore(s, close, i) ==
    IF i > Len(s) THEN "" ELSE SpaceBeforeAt(s, close, i, SkipWs(s, i))

\* index of the first "{" or "}" at or after i (Len(s) + 1 when none): [^{}]*
RECURSIVE SkipNonBrace(_, _)
SkipNonBrace(s, i) ==
    IF i <= Len(s) /\ CharAt(s, i) \notin {"{", "}"} THEN SkipNonBrace(s, i + 1) ELSE i

\* last index of a match of /{{{[^{}]*}}}/ that starts at i; 0 when none starts there
TripleEndAt(s, i, j) == IF At(s, i, "{{{") /\ At(s, j, "}}}") THEN j + 2 ELSE 0

TripleEnd(s, i) == TripleEndAt(s, i, SkipNonBrace(s, i + 3))

tripleCurlyPlaceholder == "__TRIPLE_CURLY__"

\* head followed by the text of rest
Prepend(head, rest) == [text |-> head \o rest.text, found |-> rest.found]

\* value.replace(tripleCurlyRegex, ...): the text with placeholders, and tripleCurlyContent;
\* e is TripleEnd(s, i)
RECURSIVE HideTriples(_, _, _)
RECURSIVE HideTriplesAt(_, _, _, _)
HideTriplesAt(s, i, found, e) ==
    IF e > 0
    THEN Prepend(tripleCurlyPlaceholder \o ToString(Len(found)),
                 HideTriples(s, e + 1, Append(found, SubSeq(s, i, e))))
    ELSE Prepend(CharAt(s, i), HideTriples(s, i + 1, found))

HideTriples(s, i, found) ==
    IF i > Len(s) THEN [text |-> "", found |-> found]
    ELSE HideTriplesAt(s, i, found, TripleEnd(s, i))

\* tripleCurlyContent.forEach((content, index) => value = value.replace(placeholder, content))
RECURSIVE RestoreTriples(_, _, _)
RestoreTriples(s, found, k) ==
    IF k > Len(found) THEN s
    ELSE RestoreTriples(ReplaceFirst(s, tripleCurlyPlaceholder \o ToString(k - 1), found[k]),
                        found, k + 1)

\* the two replace calls of addEdgeMustacheSpacing and the restoring forEach
SpaceDoubles(hidden) ==
    RestoreTriples(SpaceBefore(SpaceAfter(hidden.text, "{{", 1), "}}", 1), hidden.found, 1)

addEdgeMustacheSpacing(value) == SpaceDoubles(HideTriples(value, 1, <<>>))

addEdgeSafeMustacheSpacing(value) ==
    SpaceBefore(SpaceAfter(value, "{{{", 1), "}}}", 1)

\* value.replace(/{{--(?![\s\n\r\t])/g, "{{-- ")
RECURSIVE SpaceCommentOpen(_, _)
SpaceCommentOpen(s, i) ==
    IF i > Len(s) THEN ""
    ELSE IF At(s, i, "{{--")
         THEN (IF i + 4 <= Len(s) /\ IsWs(CharAt(s, i + 4)) THEN "{{--" ELSE "{{-- ")
              \o SpaceCommentOpen(s, i + 4)
    ELSE CharAt(s, i) \o SpaceCommentOpen(s, i + 1)

\* value.replace(/(?<![\s\n\r\t])--}}/g, " --}}")
RECURSIVE SpaceCommentClose(_, _)
SpaceCommentClose(s, i) ==
    IF i > Len(s) THEN ""
    ELSE IF At(s, i, "--}}") /\ ~(i > 1 /\ IsWs(CharAt(s, i - 1)))
         THEN " --}}" \o SpaceCommentClose(s, i + 4)
    ELSE CharAt(s, i) \o SpaceCommentClose(s, i + 1)

addEdgeCommentSpacing(value) == SpaceCommentClose(SpaceCommentOpen(value, 1), 1)

-----------------------------------------------------------------------------
(* utils.ts: filterLineBreaks and its module-level counter *)

MAX_CONSECUTIVE_LINE_BREAKS == 2

\* one call of filterLineBreaks with the counter at count
filterLineBreaks(node, count) ==
    IF node.type # "linebreak"
    THEN [keep |-> TRUE, count |-> 0]
    ELSE [keep |-> count + 1 <= MAX_CONSECUTIVE_LINE_BREAKS, count |-> count + 1]

\* children.filter(filterLineBreaks) with the counter at count when it starts
RECURSIVE FilterChildren(_, _)
FilterChildren(children, count) ==
    IF Len(children) = 0 THEN [kept |-> <<>>, count |-> count]
    ELSE LET f    == filterLineBreaks(Head(children), count)
             rest == FilterChildren(Tail(children), f.count)
         IN  [kept  |-> IF f.keep THEN <<Head(children)>> \o rest.kept ELSE rest.kept,
              count |-> rest.count]

-----------------------------------------------------------------------------
(* print.ts: the indentation tracker of the Printer *)

adjustIndentLevel(lvl, indentAdjustment) ==
    CASE indentAdjustment = "increase" -> lvl + 1
      [] indentAdjustment = "decrease" -> lvl - 1
      [] OTHER -> lvl

\* the level getIndent computes the indent from: levelOverride is <<>> (undefined) or <<n>>
IndentLevel(levelOverride, lvl) ==
    IF levelOverride # <<>> THEN Max(levelOverride[1], 0) ELSE lvl

\* the template literal of getIndent; " ".repeat(n) throws a RangeError for n < 0
IndentText(o, lv) ==
    IF o.useTabs THEN [ok |-> TRUE, text |-> "\t"]
    ELSE IF o.tabWidth * lv < 0 THEN [ok |-> FALSE, text |-> ""]
    ELSE [ok |-> TRUE, text |-> Repeat(" ", o.tabWidth * lv)]

\* what getIndent leaves: the text it returns (none when it threw), the level it
\* computed the text from, and Printer.level afterwards
Indented(t, lv, after) == [ok |-> t.ok, text |-> t.text, used |-> lv, level |-> after]

IndentAt(o, lv, after) == Indented(IndentText(o, lv), lv, after)

\* getIndent(levelOverride, indentAdjustment) on a Printer whose level is lvl
getIndent(o, lvl, levelOverride, indentAdjustment) ==
    IndentAt(o, IndentLevel(levelOverride, lvl), adjustIndentLevel(lvl, indentAdjustment))

\* the lines of formatMultilineValue, from line k on
RECURSIVE MultilineFrom(_, _, _, _)
MultilineFrom(lines, k, indent, indentFirstLine) ==
    IF k > Len(lines) THEN <<>>
    ELSE <<(IF k = 1 THEN (IF indentFirstLine THEN indent ELSE "") \o Trim(lines[k])
            ELSE IF k = Len(lines) THEN indent \o Trim(lines[k])
            ELSE Repeat(" ", Max(Len(indent), countLeadingSpaces(lines[k]))) \o Trim(lines[k]))>>
         \o MultilineFrom(lines, k + 1, indent, indentFirstLine)

formatMultilineValue(nodeValue, indent, indentFirstLine) ==
    Join(MultilineFrom(Split(nodeValue), 1, indent, indentFirstLine), "\n")

\* the lines of formatEdgeValue, from line k on
RECURSIVE EdgeLinesFrom(_, _, _)
EdgeLinesFrom(lines, k, indent) ==
    IF k > Len(lines) THEN <<>>
    ELSE <<(IF k = 1 THEN Trim(lines[k])
            ELSE IF k = Len(lines) THEN indent \o Trim(lines[k])
            ELSE Repeat(" ", Max(Len(indent), countLeadingSpaces(lines[k]))) \o Trim(lines[k]))>>
         \o EdgeLinesFrom(lines, k + 1, indent)

formatEdgeValue(node, indent, useLineBreak) ==
    indent \o StripTrailingBlanks(Join(EdgeLinesFrom(Split(node.value), 1, indent), "\n"))
           \o (IF useLineBreak THEN "\n" ELSE "")

-----------------------------------------------------------------------------
(* types.ts: the nodes. Every node is a record of one shape; the fields a    *)
(* variant does not have are empty. Props are given by their value strings,  *)
(* attributes by name and value ("" for an attribute without a value).       *)

Leaf(type, value) ==
    [type |-> type, value |-> value, tagName |-> "", attributes |-> <<>>,
     edgeProps |-> <<>>, edgeTagProps |-> <<>>, edgeMustaches |-> <<>>,
     comments |-> <<>>, children |-> <<>>]

Tag(type, tagName, attributes, edgeProps, edgeTagProps, edgeMustaches, comments) ==
    [type |-> type, value |-> "", tagName |-> tagName, attributes |-> attributes,
     edgeProps |-> edgeProps, edgeTagProps |-> edgeTagProps,
     edgeMustaches |-> edgeMustaches, comments |-> comments, children |-> <<>>]

Document(children) ==
    [type |-> "document", value |-> "", tagName |-> "", attributes |-> <<>>,
     edgeProps |-> <<>>, edgeTagProps |-> <<>>, edgeMustaches |-> <<>>,
     comments |-> <<>>, children |-> children]

\* array[index - 1] / array[index + 1] outside the array, and print's two undefined arguments
Undefined == Leaf("undefined", "")

Sibling(array, i) == IF i >= 1 /\ i <= Len(array) THEN array[i] ELSE Undefined

-----------------------------------------------------------------------------
(* print.ts: the Printer *)

inlineTags ==
    {"a", "abbr", "acronym", "b", "bdi", "bdo", "big", "br", "button", "cite", "code",
     "data", "dfn", "em", "i", "img", "input", "kbd", "label", "mark", "meter", "q",
     "ruby", "rp", "rt", "s", "samp", "select", "small", "span", "strong", "sub", "sup",
     "textarea", "time", "u", "var", "wbr"}

isInlineTag(tagName) == tagName \in inlineTags

IsMustache(node) == node.type \in {"edgeMustache", "edgeEscapedMustache", "edgeSafeMustache"}

IsInlineBoundary(node) ==
    node.type \in {"openingTag", "voidTag", "closingTag"} /\ isInlineTag(node.tagName)

\* what a print method hands back: the text, Printer.level afterwards, and (ind) the
\* level the node's own leading indent was computed from, <<>> when it has none
Printed(text, lvl, ind) == [ok |-> TRUE, text |-> text, level |-> lvl, ind |-> ind]

\* a print method that threw
Thrown(lvl) == [ok |-> FALSE, text |-> "", level |-> lvl, ind |-> <<>>]

\* attributes.map(...) / props.map(...) of the format* helpers
RECURSIVE MapAttributes(_, _)
MapAttributes(attributes, indent) ==
    IF Len(attributes) = 0 THEN <<>>
    ELSE <<(IF Head(attributes).attributeValue # ""
            THEN indent \o Head(attributes).attributeName \o "="
                 \o Trim(addEdgeMustacheSpacing(Head(attributes).attributeValue))
            ELSE indent \o Trim(Head(attributes).attributeName))>>
         \o MapAttributes(Tail(attributes), indent)

RECURSIVE MapProps(_, _, _)
MapProps(props, indent, kind) ==
    IF Len(props) = 0 THEN <<>>
    ELSE <<(CASE kind = "edgeProps"    -> indent \o Trim(addEdgeMustacheSpacing(Head(props)))
              [] kind = "edgeTagProps" -> indent \o Trim(Head(props))
              [] OTHER                 -> indent \o Head(props))>>
         \o MapProps(Tail(props), indent, kind)

Separator(indent) == IF indent # "" THEN "\n" ELSE " "

formatAttributes(attributes, indent) == Join(MapAttributes(attributes, indent), Separator(indent))

formatEdgeProps(props, indent) == Join(MapProps(props, indent, "edgeProps"), Separator(indent))

formatEdgeTagProps(props, indent) == Join(MapProps(props, indent, "edgeTagProps"), Separator(indent))

formatComments(comments, indent) == Join(MapProps(comments, indent, "comments"), Separator(indent))

\* the indent a print method asked for, in front of a value laid out line by line
IndentedValue(i, value, lvl) ==
    IF ~i.ok THEN Thrown(lvl)
    ELSE Printed(formatMultilineValue(value, i.text, TRUE), lvl, <<i.used>>)

\* a value that is indented only when the node before it does not share its line
InlineValue(i, useIndentation, value, lvl) ==
    IF useIndentation /\ ~i.ok THEN Thrown(lvl)
    ELSE Printed(value, lvl, IF useIndentation THEN <<i.used>> ELSE <<>>)

DTDValue(i, value, lvl) ==
    IF ~i.ok THEN Thrown(lvl) ELSE Printed(i.text \o value, lvl, <<i.used>>)

printDTDNode(o, lvl, node) == DTDValue(getIndent(o, lvl, <<>>, "none"), node.value, lvl)

printStandardNode(o, lvl, node) ==
    IF node.type = "scriptlet"
    THEN Printed(formatMultilineValue(node.value, "", TRUE), lvl, <<>>)
    ELSE IndentedValue(getIndent(o, lvl, <<>>, "none"), node.value, lvl)

printEdgeComment(o, lvl, node) ==
    IndentedValue(getIndent(o, lvl, <<>>, "none"), addEdgeCommentSpacing(Trim(node.value)), lvl)

\* nodeValue of printEdgeMustacheNode
MustacheValue(node) ==
    IF node.type = "edgeSafeMustache"
    THEN addEdgeSafeMustacheSpacing(node.value)
    ELSE addEdgeMustacheSpacing(node.value)

\* the template of printEdgeMustacheNode behind the indentation
MustacheTail(nodeValue, useLineBreak) ==
    IF useLineBreak THEN TrimEnd(StripNewlines(nodeValue)) \o "\n" ELSE nodeValue

MustacheText(i, useIndentation, tail, lvl) ==
    InlineValue(i, useIndentation, (IF useIndentation THEN i.text ELSE "") \o tail, lvl)

printEdgeMustacheNode(o, lvl, node, previousNode, nextNode) ==
    MustacheText(getIndent(o, lvl, <<>>, "none"),
                 ~(previousNode.type = "htmlText" \/ IsMustache(previousNode)
                   \/ IsInlineBoundary(previousNode)),
                 MustacheTail(MustacheValue(node),
                              ~(nextNode.type = "htmlText" \/ IsMustache(nextNode)
                                \/ IsInlineBoundary(nextNode))),
                 lvl)

\* a variant of ExceedsWidth that explodes a tag already at the print width
ExceedsWidthOrEqual(o, combinedLength) ==
    combinedLength >= o.printWidth \/ o.singleAttributePerLine

\* the comparison of printOpeningNode: is the tag laid out one item per line
ExceedsWidth(o, combinedLength) == combinedLength > o.printWidth \/ o.singleAttributePerLine

\* a variant of closingTag that closes a void tag like an opening tag
closingTagPlain(node, multiline) == ">"

\* the closing bracket of printOpeningNode; multiline is the one-item-per-line layout
closingTag(node, multiline) ==
    IF multiline THEN (IF node.type = "voidTag" THEN "/>" ELSE ">")
    ELSE (IF node.type = "voidTag" THEN " />" ELSE ">")

\* the length printOpeningNode compares with printWidth
combinedLength(node) ==
    Len(formatAttributes(node.attributes, "") \o " " \o formatEdgeProps(node.edgeProps, "")
        \o " " \o formatEdgeProps(node.edgeMustaches, "") \o " "
        \o formatEdgeTagProps(node.edgeTagProps, "") \o " " \o formatComments(node.comments, ""))

\* a variant of OpeningAdjustment that leaves the level where it is
OpeningAdjustmentNone(node) == "none"

\* the adjustment printOpeningNode asks of getIndent for the tag's own indent
OpeningAdjustment(node) == IF node.type = "openingTag" THEN "increase" ELSE "none"

\* ${x ? sep + x : ""} of the two templates of printOpeningNode
Opt(sep, text) == IF text # "" THEN sep \o text ELSE ""

\* ${x ? sep + formatMultilineValue(x, indentation) : ""}
OptMultiline(sep, text, indent) ==
    IF text # "" THEN sep \o formatMultilineValue(text, indent, TRUE) ELSE ""

\* the items of the two templates of printOpeningNode: sep and in are "\n" and the
\* indentation in the one-item-per-line layout, " " and "" on a single line
OpeningItems(node, sep, in) ==
    Opt(sep, formatAttributes(node.attributes, in))
        \o Opt(sep, formatEdgeProps(node.edgeMustaches, in))
        \o Opt(sep, formatEdgeProps(node.edgeProps, in))
        \o OptMultiline(sep, formatEdgeTagProps(node.edgeTagProps, in), in)
        \o OptMultiline(sep, formatComments(node.comments, in), in)

closingNewline(combined, closingIndentation) ==
    IF combined - 2 > 0 THEN "\n" \o closingIndentation ELSE ""

\* what follows "<tagName" in either layout
OpeningLayout(o, node, in, closingIndentation, combined) ==
    IF ExceedsWidth(o, combined)
    THEN OpeningItems(node, "\n", in) \o closingNewline(combined, closingIndentation)
            \o closingTag(node, TRUE)
    ELSE OpeningItems(node, " ", "") \o closingTag(node, FALSE)

OpeningText(o, node, useIndentation, useLineBreak, indentation, tagIndentation, closingIndentation) ==
    IF ~tagIndentation.ok THEN Thrown(tagIndentation.level)
    ELSE Printed((IF useIndentation THEN tagIndentation.text ELSE "") \o "<" \o node.tagName
                    \o OpeningLayout(o, node, indentation.text, closingIndentation.text,
                                     combinedLength(node))
                    \o (IF useLineBreak THEN "\n" ELSE ""),
                 tagIndentation.level,
                 IF useIndentation THEN <<tagIndentation.used>> ELSE <<>>)

\* the levelOverride of closingIndentation, lvl being the level after tagIndentation
ClosingOverride(node, lvl) == IF node.type = "openingTag" THEN lvl - 1 ELSE lvl

OpeningIndents(o, lvl, node, previousNode, nextNode, tagIndentation) ==
    OpeningText(o, node,
                ~((previousNode.type = "htmlText" \/ IsMustache(previousNode))
                  /\ isInlineTag(node.tagName)),
                ~isInlineTag(node.tagName) /\ nextNode.type # "linebreak",
                getIndent(o, lvl, <<lvl + 1>>, "none"),
                tagIndentation,
                getIndent(o, tagIndentation.level,
                          <<ClosingOverride(node, tagIndentation.level)>>, "none"))

printOpeningNode(o, lvl, node, previousNode, nextNode) ==
    OpeningIndents(o, lvl, node, previousNode, nextNode,
                   getIndent(o, lvl, <<>>, OpeningAdjustment(node)))

ClosingText(i, useLineBreakAtStart, tagName) ==
    Printed((IF useLineBreakAtStart THEN "\n" ELSE "") \o i.text \o "</" \o tagName \o ">",
            i.level, <<i.used>>)

\* a variant of ClosingIndent that leaves the level where it is
ClosingIndentKept(o, lvl, useIndentation) == getIndent(o, lvl, <<lvl - 1>>, "none")

ClosingIndent(o, lvl, useIndentation) ==
    getIndent(o, lvl, <<(IF useIndentation THEN lvl - 1 ELSE 0)>>, "decrease")

printClosingNode(o, lvl, node, previousNode) ==
    ClosingText(ClosingIndent(o, lvl,
                              ~isInlineTag(node.tagName) \/ previousNode.type = "linebreak"
                              \/ previousNode.type = "edgeTag"),
                previousNode.type # "linebreak" /\ previousNode.type = "closingTag"
                /\ isInlineTag(previousNode.tagName) /\ ~isInlineTag(node.tagName),
                node.tagName)

\* the flat directives of printEdgeTagNode: no change of level
IsFlatDirective(value) ==
    \/ Includes(value, "@!")
    \/ Includes(value, "@let")
    \/ Includes(value, "@svg")
    \/ Includes(value, "@assign")
    \/ Includes(value, "@inject")
    \/ Includes(value, "@eval")
    \/ Includes(value, "@debugger")
    \/ Includes(value, "@newError")
    \/ Includes(value, "@vite")
    \/ Includes(value, "@inertia")
    \/ StartsWith(value, "@include(")
    \/ StartsWith(value, "@includeIf(")
    \/ ~Includes(value, "(")

\* the if / else-if chain of printEdgeTagNode
EdgeTagKind(value) ==
    IF Includes(value, "@end") THEN "end"
    ELSE IF Includes(value, "@else") THEN "else"
    ELSE IF IsFlatDirective(value) THEN "flat"
    ELSE "open"

\* indentAdjustment of printEdgeTagNode
EdgeTagAdjustment(kind) ==
    CASE kind = "end"  -> "decrease"
      [] kind = "open" -> "increase"
      [] OTHER         -> "none"

\* a variant of EdgeTagOverride that prints an else-like midpoint at the current level
EdgeTagOverrideEnd(kind, lvl) == IF kind = "end" THEN lvl - 1 ELSE lvl

\* levelOverride of printEdgeTagNode
EdgeTagOverride(kind, lvl) == IF kind \in {"end", "else"} THEN lvl - 1 ELSE lvl

EdgeTagText(i, node, useLineBreak) ==
    Printed(formatEdgeValue(node, i.text, useLineBreak), i.level, <<i.used>>)

EdgeTagIndent(o, lvl, kind) ==
    getIndent(o, lvl, <<EdgeTagOverride(kind, lvl)>>, EdgeTagAdjustment(kind))

printEdgeTagNode(o, lvl, node, nextNode) ==
    EdgeTagText(EdgeTagIndent(o, lvl, EdgeTagKind(node.value)), node,
                nextNode.type # "linebreak")

\* a variant of TextTail that ends every text with a line break
TextTailBroken(indentedValue, useLineBreak) == TrimEnd(indentedValue) \o "\n"

\* the template of printHtmlTextNode
TextTail(indentedValue, useLineBreak) ==
    IF useLineBreak THEN TrimEnd(indentedValue) \o "\n" ELSE indentedValue

HtmlText(i, useIndentation, value, useLineBreak, lvl) ==
    InlineValue(i, useIndentation,
                TextTail(IF useIndentation THEN i.text \o value ELSE value, useLineBreak), lvl)

printHtmlTextNode(o, lvl, node, previousNode, nextNode) ==
    HtmlText(getIndent(o, lvl, <<>>, "none"),
             ~(previousNode.type = "scriptlet" \/ IsMustache(previousNode)
               \/ IsInlineBoundary(previousNode)),
             node.value,
             ~(IsMustache(nextNode) \/ nextNode.type = "htmlText"
               \/ IsInlineBoundary(nextNode) \/ nextNode.type = "scriptlet"),
             lvl)

printLineBreak(lvl, node) == Printed(node.value, lvl, <<>>)

-----------------------------------------------------------------------------
(* utils.ts: formatJS and formatCss *)

UpperLetters == "ABCDEFGHIJKLMNOPQRSTUVWXYZ"

LowerLetters == "abcdefghijklmnopqrstuvwxyz"

Digits == "0123456789"

LowerChar(c) ==
    IF \E k \in 1..Len(UpperLetters) : CharAt(UpperLetters, k) = c
    THEN CharAt(LowerLetters, CHOOSE k \in 1..Len(UpperLetters) : CharAt(UpperLetters, k) = c)
    ELSE c

\* the text as the i flag of a regular expression compares it
RECURSIVE ToLower(_)
ToLower(s) == IF Len(s) = 0 THEN "" ELSE LowerChar(CharAt(s, 1)) \o ToLower(SubSeq(s, 2, Len(s)))

IsDigit(c) == \E k \in 1..Len(Digits) : CharAt(Digits, k) = c

\* \w
IsWordChar(c) ==
    \/ \E k \in 1..Len(LowerLetters) : CharAt(LowerLetters, k) = LowerChar(c)
    \/ IsDigit(c)
    \/ c = "_"

NoMatch == [found |-> FALSE, start |-> 0, gt |-> 0, close |-> 0]

\* a match that starts at i: gt is the first ">" behind the tag name, cl the first closing
\* marker behind gt. Without one of them no later start matches either.
WrapperAt(i, gt, cl) ==
    IF gt = 0 \/ cl = 0 THEN NoMatch ELSE [found |-> TRUE, start |-> i, gt |-> gt, close |-> cl]

WrapperFrom(low, tag, i, gt) ==
    WrapperAt(i, gt, IF gt > 0 THEN IndexFrom(low, "</" \o tag \o ">", gt + 1) ELSE 0)

\* low is the text in lower case, as the i flag compares it
RECURSIVE FindIn(_, _, _, _)
FindIn(s, low, tag, i) ==
    IF i > Len(s) THEN NoMatch
    ELSE IF /\ At(low, i, "<" \o tag)
            /\ ~(i + Len(tag) + 1 <= Len(s) /\ IsWordChar(CharAt(s, i + Len(tag) + 1)))
         THEN WrapperFrom(low, tag, i, IndexFrom(low, ">", i + Len(tag) + 1))
    ELSE FindIn(s, low, tag, i + 1)

\* the leftmost match of /<tag\b([^>]*)>([\s\S]*?)<\/tag>/i at or after i:
\* start of the match, index of the ">" of the opening marker, start of the closing marker
FindWrapper(s, tag, i) == FindIn(s, ToLower(s), tag, i)

HasNewline(s) == Includes(s, "\n") \/ Includes(s, "\r")

LazyEndAt(s, i, open, close, k) ==
    IF At(s, i, open) /\ k > 0 /\ ~HasNewline(SubSeq(s, i + Len(open), k - 1))
    THEN k + Len(close) - 1
    ELSE 0

\* last index of a match of /<open>.*?<close>/ that starts at i; 0 when none starts there
LazyEnd(s, i, open, close) == LazyEndAt(s, i, open, close, IndexFrom(s, close, i + Len(open)))

\* first index at or after i where a match of /<open>.*?<close>/ starts; 0 when none does
NextSpan(s, i, open, close) == Least({k \in i..Len(s) : LazyEnd(s, k, open, close) > 0})

\* head followed by the text of rest
Hidden(head, rest) == [text |-> head \o rest.text, placeholders |-> rest.placeholders]

\* content.replace(/<open>.*?<close>/g, match => prefix + placeholderIndex++ + suffix),
\* pushing each match onto placeholders, from index i on; k is where the next match
\* starts and e where it ends
RECURSIVE HideSpans(_, _, _, _, _, _, _)
RECURSIVE HideSpansAt(_, _, _, _, _, _, _, _, _)
HideSpansAt(s, i, open, close, prefix, suffix, placeholders, k, e) ==
    IF k = 0 THEN [text |-> SubSeq(s, i, Len(s)), placeholders |-> placeholders]
    ELSE Hidden(SubSeq(s, i, k - 1) \o prefix \o ToString(Len(placeholders)) \o suffix,
                HideSpans(s, e + 1, open, close, prefix, suffix,
                          Append(placeholders, SubSeq(s, k, e))))

HideSpans(s, i, open, close, prefix, suffix, placeholders) ==
    HideSpansAt(s, i, open, close, prefix, suffix, placeholders,
                NextSpan(s, i, open, close),
                LazyEnd(s, NextSpan(s, i, open, close), open, close))

\* index of the first character at or after i that is not a digit: \d+
RECURSIVE SkipDigits(_, _)
SkipDigits(s, i) == IF i <= Len(s) /\ IsDigit(CharAt(s, i)) THEN SkipDigits(s, i + 1) ELSE i

DigitValue(c) == (CHOOSE k \in 1..Len(Digits) : CharAt(Digits, k) = c) - 1

\* parseInt(digits, 10)
RECURSIVE ParseInt(_)
ParseInt(d) ==
    IF Len(d) = 0 THEN 0
    ELSE 10 * ParseInt(SubSeq(d, 1, Len(d) - 1)) + DigitValue(CharAt(d, Len(d)))

\* a variant of PlaceholderAt that restores the first span at every placeholder
PlaceholderFirst(placeholders, n) ==
    IF Len(placeholders) >= 1 THEN placeholders[1] ELSE "undefined"

\* placeholders[index] in a template position: the string "undefined" outside the array
PlaceholderAt(placeholders, n) ==
    IF n + 1 <= Len(placeholders) THEN placeholders[n + 1] ELSE "undefined"

\* a match of /<prefix>\d+<suffix>/ starts at k
IsPlaceholderAt(s, k, prefix, suffix) ==
    /\ At(s, k, prefix)
    /\ SkipDigits(s, k + Len(prefix)) > k + Len(prefix)
    /\ At(s, SkipDigits(s, k + Len(prefix)), suffix)

\* first index at or after i where a match of /<prefix>\d+<suffix>/ starts; 0 when none
NextPlaceholder(s, i, prefix, suffix) ==
    Least({k \in i..Len(s) : IsPlaceholderAt(s, k, prefix, suffix)})

\* text.replace(/<prefix>\d+<suffix>/g, p => placeholders[parseInt(p.match(/\d+/)[0], 10)])
\* from index i on; k is where the next match starts and e the index behind its digits
RECURSIVE RestoreSpans(_, _, _, _, _)
RECURSIVE RestoreSpansAt(_, _, _, _, _, _, _)
RestoreSpansAt(s, i, prefix, suffix, placeholders, k, e) ==
    IF k = 0 THEN SubSeq(s, i, Len(s))
    ELSE SubSeq(s, i, k - 1)
            \o PlaceholderAt(placeholders, ParseInt(SubSeq(s, k + Len(prefix), e - 1)))
            \o RestoreSpans(s, e + Len(suffix), prefix, suffix, placeholders)

RestoreSpans(s, i, prefix, suffix, placeholders) ==
    RestoreSpansAt(s, i, prefix, suffix, placeholders,
                   NextPlaceholder(s, i, prefix, suffix),
                   SkipDigits(s, NextPlaceholder(s, i, prefix, suffix) + Len(prefix)))

RECURSIVE DropEmpty(_)
DropEmpty(lines) ==
    IF Len(lines) = 0 THEN <<>>
    ELSE (IF Trim(Head(lines)) = "" THEN <<>> ELSE <<Trim(Head(lines))>>) \o DropEmpty(Tail(lines))

\* a variant of ForeignFormat that answers an error with the text as it was given
ForeignFormatLenient(content, ext) == [ok |-> TRUE, text |-> content]

\* the foreign formatter (uglifyjs.minify / css.parse and css.stringify), an external
\* collaborator: either it reports an error (ext = "error") or it returns the text
\* reformatted, here every line trimmed and the empty lines dropped
ForeignFormat(content, ext) ==
    IF ext = "error" THEN [ok |-> FALSE, text |-> ""]
    ELSE [ok |-> TRUE, text |-> Join(DropEmpty(Split(content)), "\n")]

RECURSIVE PrefixLines(_, _)
PrefixLines(lines, prefix) ==
    IF Len(lines) = 0 THEN <<>>
    ELSE <<prefix \o Head(lines)>> \o PrefixLines(Tail(lines), prefix)

\* a formatter that threw
Failed == [ok |-> FALSE, text |-> ""]

Formatted(text) == [ok |-> TRUE, text |-> text]

\* the second of the two content.replace calls that hide the mustaches
HideDoubles(safe, suffix) ==
    HideSpans(safe.text, 1, "{{", "}}", "__MUSTACHE_TAG_", suffix, safe.placeholders)

\* the two content.replace calls that hide the mustaches behind placeholders
HideMustaches(content, suffix) ==
    HideDoubles(HideSpans(content, 1, "{{{", "}}}", "__SAFE_MUSTACHE_TAG_", suffix, <<>>), suffix)

\* .split("\n").map(line => tagContentIndent + line).join("\n")
IndentLines(text, tagContentIndent) == Join(PrefixLines(Split(text), tagContentIndent), "\n")

\* the end of formatJS: the placeholders restored, the lines indented, the tag rebuilt
ScriptText(attributes, res, placeholders, tagIndent, tagContentIndent) ==
    IF ~res.ok THEN Failed
    ELSE Formatted(tagIndent \o "<script" \o attributes \o ">\n"
            \o IndentLines(RestoreSpans(RestoreSpans(res.text, 1, "__SAFE_MUSTACHE_TAG_", "__",
                                                     placeholders),
                                        1, "__MUSTACHE_TAG_", "__", placeholders),
                           tagContentIndent)
            \o "\n" \o tagIndent \o "</script>")

ScriptFormatted(attributes, must, tagIndent, tagContentIndent, ext) ==
    ScriptText(attributes, ForeignFormat(must.text, ext), must.placeholders, tagIndent,
               tagContentIndent)

\* formatJS behind node.value.match(scriptTagRegex), m being the match
ScriptMatched(value, m, tagIndent, tagContentIndent, ext) ==
    IF ~m.found THEN Failed
    ELSE ScriptFormatted(SubSeq(value, m.start + Len("<script"), m.gt - 1),
                         HideMustaches(SubSeq(value, m.gt + 1, m.close - 1), "__"),
                         tagIndent, tagContentIndent, ext)

formatJS(node, jsIndent, tagIndent, tagContentIndent, ext) ==
    ScriptMatched(node.value, FindWrapper(node.value, "script", 1), tagIndent,
                  tagContentIndent, ext)

\* the end of the callback of formatCss
StyleText(res, placeholders, tagIndent, tagContentIndent) ==
    IF ~res.ok THEN Failed
    ELSE Formatted(tagIndent \o "<style>\n"
            \o IndentLines(RestoreSpans(RestoreSpans(res.text, 1, "__MUSTACHE_TAG_", "__;",
                                                     placeholders),
                                        1, "__SAFE_MUSTACHE_TAG_", "__;", placeholders),
                           tagContentIndent)
            \o "\n" \o tagIndent \o "</style>")

StyleFormatted(must, tagIndent, tagContentIndent, ext) ==
    StyleText(ForeignFormat(must.text, ext), must.placeholders, tagIndent, tagContentIndent)

\* the callback formatCss hands to node.value.replace(styleRegex, ...), on one match
StyleCallback(cssContent, tagIndent, tagContentIndent, ext) ==
    StyleFormatted(HideMustaches(cssContent, "__;"), tagIndent, tagContentIndent, ext)

\* the text before a match, what the callback returned for it, and the rest replaced
Spliced(before, cb, rest) ==
    IF ~cb.ok \/ ~rest.ok THEN Failed ELSE Formatted(before \o cb.text \o rest.text)

\* node.value.replace(styleRegex, callback) from position i on: every match is replaced,
\* the text around the matches stays, and a value without a match comes back as it is
RECURSIVE ReplaceStyles(_, _, _, _, _)
RECURSIVE ReplaceStylesAt(_, _, _, _, _, _)
ReplaceStylesAt(s, i, m, tagIndent, tagContentIndent, ext) ==
    IF ~m.found THEN Formatted(SubSeq(s, i, Len(s)))
    ELSE Spliced(SubSeq(s, i, m.start - 1),
                 StyleCallback(SubSeq(s, m.gt + 1, m.close - 1), tagIndent, tagContentIndent,
                               ext),
                 ReplaceStyles(s, m.close + Len("</style>"), tagIndent, tagContentIndent, ext))

ReplaceStyles(s, i, tagIndent, tagContentIndent, ext) ==
    ReplaceStylesAt(s, i, FindWrapper(s, "style", i), tagIndent, tagContentIndent, ext)

formatCss(node, tagIndent, tagContentIndent, cssIndent, ext) ==
    ReplaceStyles(node.value, 1, tagIndent, tagContentIndent, ext)

\* what the two embedded print methods return
EmbeddedText(tagIndent, formatted, lvl) ==
    IF ~tagIndent.ok \/ ~formatted.ok THEN Thrown(lvl)
    ELSE Printed(formatted.text, lvl, <<tagIndent.used>>)

ScriptElement(o, lvl, node, ext, tagIndent, tagContentIndent) ==
    EmbeddedText(tagIndent,
                 formatJS(node, o.tabWidth, tagIndent.text, tagContentIndent.text, ext), lvl)

printScriptElementNode(o, lvl, node, ext) ==
    ScriptElement(o, lvl, node, ext, getIndent(o, lvl, <<>>, "none"),
                  getIndent(o, lvl, <<lvl + 1>>, "none"))

StyleElement(o, lvl, node, ext, tagIndent, tagContentIndent, cssIndent) ==
    EmbeddedText(tagIndent,
                 formatCss(node, tagIndent.text, tagContentIndent.text, cssIndent.text, ext),
                 lvl)

printStyleElementNode(o, lvl, node, ext) ==
    StyleElement(o, lvl, node, ext, getIndent(o, lvl, <<>>, "none"),
                 getIndent(o, lvl, <<lvl + 1>>, "none"), getIndent(o, lvl, <<1>>, "none"))

\* how often the node printed asked the foreign formatter, and whether it was answered
\* with an error
Invoked(n, ext) == [calls |-> n, error |-> n > 0 /\ ext = "error"]

NoForeign == Invoked(0, "ok")

\* formatJS: uglifyjs.minify is called once, behind the match of scriptTagRegex
ScriptInvocations(m) == IF m.found THEN 1 ELSE 0

\* formatCss: css.parse is called by the callback, once for every match of styleRegex
\* up to the first call that throws
RECURSIVE StyleInvocations(_, _, _)
RECURSIVE StyleInvocationsAt(_, _, _)
StyleInvocationsAt(s, m, ext) ==
    IF ~m.found THEN 0
    ELSE IF ext = "error" THEN 1
    ELSE 1 + StyleInvocations(s, m.close + Len("</style>"), ext)

StyleInvocations(s, i, ext) == StyleInvocationsAt(s, FindWrapper(s, "style", i), ext)

\* the calls of the foreign formatter that printing node makes; the arguments of formatJS
\* and formatCss are evaluated first, tagIndent being the first getIndent() among them
ForeignUse(node, tagIndent, ext) ==
    IF ~tagIndent.ok THEN NoForeign
    ELSE IF node.type = "scriptElement"
         THEN Invoked(ScriptInvocations(FindWrapper(node.value, "script", 1)), ext)
    ELSE IF node.type = "styleElement" THEN Invoked(StyleInvocations(node.value, 1, ext), ext)
    ELSE NoForeign

\* a variant of printUnknown that raises the level
printUnknownRaised(lvl) == Printed("", lvl + 1, <<>>)

\* the default branch of handlePrint
printUnknown(lvl) == Printed("", lvl, <<>>)

\* handlePrint for every node type but "document"; ext is what the foreign formatter
\* does when the node is a script or style element
handlePrint(o, lvl, node, previousNode, nextNode, ext) ==
    CASE node.type = "dtd" -> printDTDNode(o, lvl, node)
      [] node.type \in {"htmlComment", "htmlConditionalComment", "cdata", "scriptlet"} ->
            printStandardNode(o, lvl, node)
      [] node.type = "scriptElement" -> printScriptElementNode(o, lvl, node, ext)
      [] node.type = "styleElement" -> printStyleElementNode(o, lvl, node, ext)
      [] node.type = "edgeComment" -> printEdgeComment(o, lvl, node)
      [] IsMustache(node) -> printEdgeMustacheNode(o, lvl, node, previousNode, nextNode)
      [] node.type \in {"openingTag", "voidTag"} ->
            printOpeningNode(o, lvl, node, previousNode, nextNode)
      [] node.type = "closingTag" -> printClosingNode(o, lvl, node, previousNode)
      [] node.type = "edgeTag" -> printEdgeTagNode(o, lvl, node, nextNode)
      [] node.type = "htmlText" -> printHtmlTextNode(o, lvl, node, previousNode, nextNode)
      [] node.type = "linebreak" -> printLineBreak(lvl, node)
      [] OTHER -> printUnknown(lvl)

\* text followed by what the children behind it print
Followed(text, rest) == IF ~rest.ok THEN Failed ELSE Formatted(text \o rest.text)

\* .map(...).join("") of printDocumentNode from child i on, the Printer being at level lvl
\* and the foreign formatter succeeding
RECURSIVE printChildren(_, _, _, _)
RECURSIVE ChildrenBehind(_, _, _, _)
ChildrenBehind(r, o, array, i) ==
    IF ~r.ok THEN Failed ELSE Followed(r.text, printChildren(o, r.level, array, i + 1))

printChildren(o, lvl, array, i) ==
    IF i > Len(array) THEN Formatted("")
    ELSE ChildrenBehind(handlePrint(o, lvl, array[i], Sibling(array, i - 1),
                                    Sibling(array, i + 1), "ok"),
                        o, array, i)

-----------------------------------------------------------------------------
(* utils.ts, the later version: formatJS and formatCss with the arguments       *)
(* (..., options, levelOverride), which hide control blocks and single-line      *)
(* directives as well and print the blocks again with a Printer of their own     *)

\* the alternatives of singleLineEdgeTagRegex, in the order the pattern tries them
singleLineKeywords ==
    <<"assign", "!component", "debugger", "eval", "include", "includeIf", "inject", "stack",
      "svg", "let", "newError", "vite", "inertia", "dd", "dump">>

\* the at-rules in the negative lookahead of edgeTagBlockRegex of formatCss
cssAtRules ==
    {"media", "keyframes", "supports", "font-face", "viewport", "counter-style", "page",
     "document", "font-feature-values"}

\* index behind \w* from i
RECURSIVE SkipWord(_, _)
SkipWord(s, i) == IF i <= Len(s) /\ IsWordChar(CharAt(s, i)) THEN SkipWord(s, i + 1) ELSE i

\* index behind (?:\.\w+)* from i
RECURSIVE SkipDotted(_, _)
SkipDotted(s, i) ==
    IF At(s, i, ".") /\ SkipWord(s, i + 1) > i + 1 THEN SkipDotted(s, SkipWord(s, i + 1)) ELSE i

\* index behind the ")" that closes the "(" opened before i, d being the nesting depth
\* at i; 0 when the text ends first or nests deeper than the three levels of the pattern
RECURSIVE ParenClose(_, _, _)
ParenClose(s, i, d) ==
    IF i > Len(s) THEN 0
    ELSE IF CharAt(s, i) = ")" THEN (IF d = 1 THEN i + 1 ELSE ParenClose(s, i + 1, d - 1))
    ELSE IF CharAt(s, i) = "(" THEN (IF d = 3 THEN 0 ELSE ParenClose(s, i + 1, d + 1))
    ELSE ParenClose(s, i + 1, d)

\* index behind (?:\(...\))? at w
ArgsFrom(s, w) ==
    IF At(s, w, "(") /\ ParenClose(s, w + 1, 1) > 0 THEN ParenClose(s, w + 1, 1) ELSE w

\* index behind \s*(?:\(...\))? from i
ArgsEnd(s, i) == ArgsFrom(s, SkipWs(s, i))

\* index behind \w+(?:\.\w+)* from i; 0 when no word starts at i
NameEndAt(s, i) == IF SkipWord(s, i) = i THEN 0 ELSE SkipDotted(s, SkipWord(s, i))

\* index behind @(?!at-rule)!?\w+(?:\.\w+)* at p; 0 when the pattern does not match
\* there. css: the lookahead of formatCss applies
BlockNameEnd(s, p, css) ==
    IF ~At(s, p, "@") THEN 0
    ELSE IF css /\ \E r \in cssAtRules : At(s, p + 1, r) THEN 0
    ELSE NameEndAt(s, IF At(s, p + 1, "!") THEN p + 2 ELSE p + 1)

\* [\s\S]*?@end behind the directive: the first "@end" behind the arguments, and when
\* there is none the first one behind the name (the pattern then gives the arguments up)
BlockEndFrom(k1, k2) == IF k1 > 0 THEN k1 + 3 ELSE IF k2 > 0 THEN k2 + 3 ELSE 0

BlockEndAt(s, n) ==
    IF n = 0 THEN 0
    ELSE BlockEndFrom(IndexFrom(s, "@end", ArgsEnd(s, n)), IndexFrom(s, "@end", n))

\* last index of the match of edgeTagBlockRegex that starts at p; 0 when none does
BlockEnd(s, p, css) == BlockEndAt(s, BlockNameEnd(s, p, css))

\* length of the first alternative of singleLineEdgeTagRegex that stands behind the "@"
\* at p, from alternative a on; 0 when none does
RECURSIVE KeywordLen(_, _, _)
KeywordLen(s, p, a) ==
    IF a > Len(singleLineKeywords) THEN 0
    ELSE IF At(s, p + 1, singleLineKeywords[a]) THEN Len(singleLineKeywords[a])
    ELSE KeywordLen(s, p, a + 1)

SingleEndAt(s, p, n) == IF ~At(s, p, "@") \/ n = 0 THEN 0 ELSE ArgsEnd(s, p + 1 + n) - 1

\* last index of the match of singleLineEdgeTagRegex that starts at p; 0 when none does
SingleEnd(s, p) == SingleEndAt(s, p, KeywordLen(s, p, 1))

\* last index of the match that starts at p, of the block pattern or the single-line one
EdgeTagEnd(s, p, block, css) == IF block THEN BlockEnd(s, p, css) ELSE SingleEnd(s, p)

\* first index at or after i where a match starts; 0 when none does
NextEdgeTag(s, i, block, css) == Least({k \in i..Len(s) : EdgeTagEnd(s, k, block, css) > 0})

\* content.replace(pattern, match => prefix + placeholderIndex++ + "__*/"), pushing each
\* match onto placeholders, from index i on; k is where the next match starts, e its end
RECURSIVE HideEdgeTags(_, _, _, _, _, _)
RECURSIVE HideEdgeTagsAt(_, _, _, _, _, _, _, _)
HideEdgeTagsAt(s, i, block, css, prefix, placeholders, k, e) ==
    IF k = 0 THEN [text |-> SubSeq(s, i, Len(s)), placeholders |-> placeholders]
    ELSE Hidden(SubSeq(s, i, k - 1) \o prefix \o ToString(Len(placeholders)) \o "__*/",
                HideEdgeTags(s, e + 1, block, css, prefix,
                             Append(placeholders, SubSeq(s, k, e))))

HideEdgeTags(s, i, block, css, prefix, placeholders) ==
    HideEdgeTagsAt(s, i, block, css, prefix, placeholders, NextEdgeTag(s, i, block, css),
                   EdgeTagEnd(s, NextEdgeTag(s, i, block, css), block, css))

\* the third replace call: the control blocks
HideBlocks(must, css) ==
    HideEdgeTags(must.text, 1, TRUE, css, "/*__EDGE_TAG_BLOCK_", must.placeholders)

\* the fourth replace call: the single-line directives
HideSingles(blocks) ==
    HideEdgeTags(blocks.text, 1, FALSE, FALSE, "/*__SINGLE_EDGE_TAG_", blocks.placeholders)

\* the four replace calls that hide template syntax from the foreign formatter
HideTemplate(content, suffix, css) ==
    HideSingles(HideBlocks(HideMustaches(content, suffix), css))

\* the nodes of the lines of a span
RECURSIVE ParsedLines(_)
ParsedLines(lines) ==
    IF Len(lines) = 0 THEN <<>>
    ELSE (IF Trim(Head(lines)) = "" THEN <<>>
          ELSE <<Leaf(IF StartsWith(Trim(Head(lines)), "@") THEN "edgeTag" ELSE "htmlText",
                      Trim(Head(lines)))>>)
         \o ParsedLines(Tail(lines))

\* new edgeParser(originalContent), an external collaborator: here every line of the span
\* becomes a node, a control-block tag when it starts with "@" and a text otherwise
edgeParser(content) == Document(ParsedLines(Split(content)))

\* the second argument of new Printer(...) in formatJS
ScriptBlockLevel(levelOverride) == 0

\* the second argument of new Printer(...) in formatCss
StyleBlockLevel(levelOverride) == levelOverride + 2

\* new Printer({...options}, lvl): this.level of the Printer that prints a block again
NestedLevel(lvl) == lvl

\* printer.handlePrint(parsedContent) of that Printer: the children printed one after
\* the other, the first of them at the level the Printer was constructed with
NestedPrint(o, lvl, parsed) == printChildren(o, NestedLevel(lvl), parsed.children, 1)

\* the text before a placeholder, the block printed again in its place, and the rest;
\* nested lists the levels the Printers of the blocks were constructed with
BlockRestored(before, printed, trimmed, lvl, rest) ==
    [ok |-> printed.ok /\ rest.ok,
     text |-> before \o (IF trimmed THEN Trim(printed.text) ELSE printed.text) \o rest.text,
     nested |-> <<NestedLevel(lvl)>> \o rest.nested]

\* text.replace(/\/\*__EDGE_TAG_BLOCK_\d+__\*\//g, callback) from index i on; k is where
\* the next placeholder starts and e the index behind its digits
RECURSIVE RestoreBlocks(_, _, _, _, _, _)
RECURSIVE RestoreBlocksAt(_, _, _, _, _, _, _, _)
RestoreBlocksAt(s, i, placeholders, o, lvl, trimmed, k, e) ==
    IF k = 0 THEN [ok |-> TRUE, text |-> SubSeq(s, i, Len(s)), nested |-> <<>>]
    ELSE BlockRestored(SubSeq(s, i, k - 1),
                       NestedPrint(o, lvl,
                                   edgeParser(PlaceholderAt(placeholders,
                                       ParseInt(SubSeq(s, k + Len("/*__EDGE_TAG_BLOCK_"),
                                                       e - 1))))),
                       trimmed, lvl,
                       RestoreBlocks(s, e + Len("__*/"), placeholders, o, lvl, trimmed))

RestoreBlocks(s, i, placeholders, o, lvl, trimmed) ==
    RestoreBlocksAt(s, i, placeholders, o, lvl, trimmed,
                    NextPlaceholder(s, i, "/*__EDGE_TAG_BLOCK_", "__*/"),
                    SkipDigits(s, NextPlaceholder(s, i, "/*__EDGE_TAG_BLOCK_", "__*/")
                                  + Len("/*__EDGE_TAG_BLOCK_")))

\* what a run of formatJS or formatCss leaves: whether it returned, the text it returned,
\* the content as the foreign formatter was given it, the spans recorded and the levels
\* of the Printers constructed for the blocks
Ran(ok, text, hid, nested) ==
    [ok |-> ok, text |-> text, hidden |-> hid.text, placeholders |-> hid.placeholders,
     nested |-> nested]

\* the end of formatJS: the remaining placeholders restored, the lines indented, the
\* tag rebuilt
ScriptRestored(attributes, hid, blocks, tagIndent, tagContentIndent) ==
    IF ~blocks.ok THEN Ran(FALSE, "", hid, blocks.nested)
    ELSE Ran(TRUE,
             tagIndent \o "<script" \o attributes \o ">\n"
                \o IndentLines(
                     RestoreSpans(
                       RestoreSpans(
                         RestoreSpans(blocks.text, 1, "/*__SINGLE_EDGE_TAG_", "__*/",
                                      hid.placeholders),
                         1, "__SAFE_MUSTACHE_TAG_", "__", hid.placeholders),
                       1, "__MUSTACHE_TAG_", "__", hid.placeholders),
                     tagContentIndent)
                \o "\n" \o tagIndent \o "</script>",
             hid, blocks.nested)

\* formatJS behind the four replace calls, res being what uglifyjs.minify answered
ScriptHidden(attributes, hid, res, tagIndent, tagContentIndent, o, levelOverride) ==
    IF ~res.ok THEN Ran(FALSE, "", hid, <<>>)
    ELSE ScriptRestored(attributes, hid,
                        RestoreBlocks(res.text, 1, hid.placeholders, o,
                                      ScriptBlockLevel(levelOverride), FALSE),
                        tagIndent, tagContentIndent)

ScriptBlocksMatched(value, m, tagIndent, tagContentIndent, o, levelOverride, ext, hid) ==
    ScriptHidden(SubSeq(value, m.start + Len("<script"), m.gt - 1), hid,
                 ForeignFormat(hid.text, ext), tagIndent, tagContentIndent, o, levelOverride)

\* formatJS(node, jsIndent, tagIndent, tagContentIndent, options, levelOverride)
formatJSBlocks(node, jsIndent, tagIndent, tagContentIndent, o, levelOverride, ext, m) ==
    IF ~m.found THEN Ran(FALSE, "", [text |-> "", placeholders |-> <<>>], <<>>)
    ELSE ScriptBlocksMatched(node.value, m, tagIndent, tagContentIndent, o, levelOverride, ext,
                             HideTemplate(SubSeq(node.value, m.gt + 1, m.close - 1), "__",
                                          FALSE))

\* the end of the callback of formatCss
StyleRestored(hid, blocks, tagIndent, tagContentIndent) ==
    IF ~blocks.ok THEN Ran(FALSE, "", hid, blocks.nested)
    ELSE Ran(TRUE,
             RestoreSpans(
               RestoreSpans(
                 RestoreSpans(blocks.text, 1, "__MUSTACHE_TAG_", "__;", hid.placeholders),
                 1, "__SAFE_MUSTACHE_TAG_", "__;", hid.placeholders),
               1, "/*__SINGLE_EDGE_TAG_", "__*/", hid.placeholders),
             hid, blocks.nested)

\* the callback of formatCss behind the four replace calls, res being what css.parse
\* and css.stringify answered
StyleHidden(hid, res, tagIndent, tagContentIndent, o, levelOverride) ==
    IF ~res.ok THEN Ran(FALSE, "", hid, <<>>)
    ELSE StyleRestored(hid,
                       RestoreBlocks(tagIndent \o "<style>\n"
                                        \o IndentLines(res.text, tagContentIndent)
                                        \o "\n" \o tagIndent \o "</style>",
                                     1, hid.placeholders, o, StyleBlockLevel(levelOverride),
                                     TRUE),
                       tagIndent, tagContentIndent)

StyleBlocksMatched(tagIndent, tagContentIndent, o, levelOverride, ext, hid) ==
    StyleHidden(hid, ForeignFormat(hid.text, ext), tagIndent, tagContentIndent, o,
                levelOverride)

\* node.value.replace(styleRegex, callback): what the callback returned stands between
\* the text before the match and the text behind it
StyleSpliced(before, ran, after) ==
    Ran(ran.ok, IF ran.ok THEN before \o ran.text \o after ELSE "",
        [text |-> ran.hidden, placeholders |-> ran.placeholders], ran.nested)

\* formatCss(node, tagIndent, tagContentIndent, cssIndent, options, levelOverride) on a
\* value with one style element, m being its match; a value without one comes back as
\* it is
formatCssBlocks(node, tagIndent, tagContentIndent, cssIndent, o, levelOverride, ext, m) ==
    IF ~m.found THEN Ran(TRUE, node.value, [text |-> "", placeholders |-> <<>>], <<>>)
    ELSE StyleSpliced(SubSeq(node.value, 1, m.start - 1),
                      StyleBlocksMatched(tagIndent, tagContentIndent, o, levelOverride, ext,
                                         HideTemplate(SubSeq(node.value, m.gt + 1, m.close - 1),
                                                      "__;", TRUE)),
                      SubSeq(node.value, m.close + Len("</style>"), Len(node.value)))

\* no run of the later formatJS / formatCss
NoEmbedded ==
    [node |-> Undefined, levelOverride |-> 0, ok |-> TRUE, text |-> "", hidden |-> "",
     placeholders |-> <<>>, nested |-> <<>>]

-----------------------------------------------------------------------------
(* The inputs: options and trees *)

Options(useTabs, tabWidth, printWidth, singleAttributePerLine) ==
    [useTabs |-> useTabs, tabWidth |-> tabWidth, printWidth |-> printWidth,
     singleAttributePerLine |-> singleAttributePerLine]

\* main.ts defaultOptions and the ?? defaults of the Printer constructor
DefaultOptions == Options(FALSE, 4, 80, FALSE)

TabOptions == Options(TRUE, 4, 80, FALSE)

NarrowOptions == Options(FALSE, 2, 20, FALSE)

SingleOptions == Options(FALSE, 4, 80, TRUE)

AllOptions == {DefaultOptions, TabOptions, NarrowOptions, SingleOptions}

Attr(name, value) == [attributeName |-> name, attributeValue |-> value]

SeqsUpTo(S, n) == UNION {[1..k -> S] : k \in 0..n}

LineBreak == Leaf("linebreak", "\n")

Hello == Leaf("htmlText", "Hello")

Name == Leaf("edgeMustache", "{{name}}")

IfTag == Leaf("edgeTag", "@if(user)")

EndTag == Leaf("edgeTag", "@end")

ElseTag == Leaf("edgeTag", "@else")

LetTag == Leaf("edgeTag", "@let(a = 1)")

StackTag == Leaf("edgeTag", "@stack('js')")

OpenDiv == Tag("openingTag", "div", <<Attr("class", "\"a\"")>>, <<>>, <<>>, <<>>, <<>>)

CloseDiv == Tag("closingTag", "div", <<>>, <<>>, <<>>, <<>>, <<>>)

OpenSpan == Tag("openingTag", "span", <<>>, <<>>, <<>>, <<>>, <<>>)

CloseSpan == Tag("closingTag", "span", <<>>, <<>>, <<>>, <<>>, <<>>)

\* 18 characters of attributes: 22 with the four separators of combinedLength
VoidImg == Tag("voidTag", "img", <<Attr("src", "\"a.png\""), Attr("alt", "\"\"")>>,
               <<>>, <<>>, <<>>, <<>>)

\* 16 characters of attribute and mustache: 20 with the four separators
VoidInput == Tag("voidTag", "input", <<Attr("name", "\"qa\"")>>, <<>>, <<>>,
                 <<"{{ a }}">>, <<>>)

\* 78 characters of attributes: 82 with the four separators of combinedLength
WideDiv ==
    Tag("openingTag", "div",
        <<Attr("a1", "\"cccccc\""), Attr("a2", "\"cccccc\""), Attr("a3", "\"cccccc\""),
          Attr("a4", "\"cccccc\""), Attr("a5", "\"cccccc\""), Attr("a6", "\"cccccc\""),
          Attr("id", "\"i\"")>>,
        <<>>, <<>>, <<>>, <<>>)

VoidBr == Tag("voidTag", "br", <<>>, <<>>, <<>>, <<>>, <<>>)

GoodScript == Leaf("scriptElement", "<script type=\"module\">\n  let a = {{ b }};\n</script>")

BadScript == Leaf("scriptElement", "<script>let a = 1;")

GoodStyle == Leaf("styleElement", "<style>\n  a { color: {{ c }}; }\n</style>")

BadStyle == Leaf("styleElement", "<style>a { }")

\* a variant that refers to an external script and has no body
SrcScript == Leaf("scriptElement", "<script src=\"a.js\"></script>")

MixedScript == Leaf("scriptElement", "<script>f({{{ a }}},{{ b }},{{c}})</script>")

MixedStyle == Leaf("styleElement", "<style>a{b:{{ c }};d:{{{ e }}};}</style>")

AttrStyle == Leaf("styleElement", "<style media=\"x\">a { }</style>")

\* a script whose author wrote an identifier of the shape of a placeholder
CollideScript == Leaf("scriptElement", "<script>a={{b}};__MUSTACHE_TAG_0__</script>")

\* a node of a type handlePrint has no case for
Unknown == Leaf("doNotPrint", "x")

Comment == Leaf("htmlComment", "<!-- c -->")

EdgeComment == Leaf("edgeComment", "{{--c--}}")

\* script and style elements with control blocks and single-line directives in them
BlockScript == Leaf("scriptElement", "<script>@if(a)\nf({{ b }})\n@end</script>")

NestedScript == Leaf("scriptElement", "<script>@if(a)\n@if(b)\nf()\n@end\ng()\n@end</script>")

LetScript == Leaf("scriptElement", "<script>@let(a=1)\n@if(b)\nf()\n@end</script>")

IncludeScript == Leaf("scriptElement", "<script>@include('a')\nf()</script>")

PlainScript == Leaf("scriptElement", "<script>f()</script>")

BlockStyle == Leaf("styleElement", "<style>@if(a)\nb{c:d}\n@end</style>")

MediaStyle == Leaf("styleElement", "<style>@media x{a{b:c}}\n@if(d)\ne{f:g}\n@end</style>")

NestedStyle == Leaf("styleElement", "<style>@if(a)\n@if(b)\nc{d:e}\n@end\n@end</style>")

SvgStyle == Leaf("styleElement", "<style>a{b:{{ c }}}\n@svg('x')</style>")

BlockEmbeddedPool ==
    {BlockScript, NestedScript, LetScript, IncludeScript, PlainScript, BadScript, BlockStyle,
     MediaStyle, NestedStyle, SvgStyle, BadStyle}

BreakPool == {LineBreak, Hello}

BlockPool == {Hello, IfTag, EndTag, ElseTag, LetTag, StackTag}

TagPool == {Hello, Name, LineBreak, OpenDiv, CloseDiv, OpenSpan, CloseSpan, VoidImg,
            VoidInput, WideDiv, VoidBr}

EmbeddedPool == {GoodScript, BadScript, GoodStyle, BadStyle, SrcScript, MixedScript,
                 MixedStyle, AttrStyle, CollideScript}

\* what a block element may hold: a text, an interpolation, a comment, an inline element,
\* a void tag
BlockContents ==
    {<<Hello>>, <<Name>>, <<Comment>>, <<EdgeComment>>, <<OpenSpan, Hello, CloseSpan>>,
     <<VoidImg>>, <<VoidBr>>}

BreakRuns == SeqsUpTo({LineBreak}, MaxBreaks)

\* the siblings put before and behind a node of an unknown type
NeighbourPool == {Hello, Name, OpenDiv, OpenSpan, VoidBr, IfTag, LineBreak, Comment}

\* a control block whose single value holds the opener and the end marker
BlockInOne == Leaf("edgeTag", "@if(a)\nx\n@end")

\* an opener and the node that closes it
Pairs == {<<OpenDiv, CloseDiv>>, <<OpenSpan, CloseSpan>>, <<IfTag, EndTag>>}

\* what stands between the openers and the closers of a nested document
Fillers == {<<>>, <<Hello>>, <<LineBreak>>, <<ElseTag>>, <<LetTag>>, <<VoidBr>>}

OuterFillers == {<<>>, <<Hello>>, <<LineBreak>>}

\* a closer without an opener, and what may follow it
Strays == {CloseDiv, CloseSpan, EndTag, BlockInOne}

Followers == {<<>>, <<Hello>>, <<Comment>>, <<Name>>, <<OpenDiv>>, <<VoidBr>>, <<EdgeComment>>}

Input(node, o) == [root |-> node, opts |-> o]

\* what one print call is given when print is called once
SingleInputs ==
    {Input(Document(c), o) : c \in SeqsUpTo(BlockPool, MaxLen), o \in {DefaultOptions, TabOptions}}
    \cup {Input(Document(c), o) : c \in SeqsUpTo(TagPool, MaxTagLen), o \in AllOptions}
    \cup {Input(Document(<<OpenDiv>> \o c), DefaultOptions) : c \in SeqsUpTo(EmbeddedPool, 1)}
    \cup {Input(n, o) : n \in EmbeddedPool \cup {VoidImg, OpenDiv, Unknown},
                         o \in {DefaultOptions, TabOptions}}
    \cup {Input(Document(<<OpenDiv>> \o b1 \o c \o b2 \o <<CloseDiv>>), o) :
            b1 \in BreakRuns, c \in BlockContents, b2 \in BreakRuns,
            o \in {DefaultOptions, TabOptions}}
    \cup {Input(Document(<<a, Unknown, b>>), DefaultOptions) : a \in NeighbourPool, b \in NeighbourPool}
    \cup {Input(Document(<<p[1]>> \o f1 \o <<q[1]>> \o f2 \o <<q[2]>> \o f3 \o <<p[2]>>), o) :
            p \in Pairs, q \in Pairs, f1 \in OuterFillers, f2 \in Fillers, f3 \in OuterFillers,
            o \in {DefaultOptions, TabOptions}}
    \cup {Input(Document(<<s>> \o f), o) :
            s \in Strays, f \in Followers, o \in {DefaultOptions, TabOptions}}

\* what each print call is given when print is called several times in a process
RepeatedInputs ==
    {Input(Document(c), DefaultOptions) : c \in SeqsUpTo(BreakPool, MaxBreakLen)}
    \cup {Input(n, DefaultOptions) :
            n \in {Document(<<OpenDiv>>), Document(<<EndTag>>), Document(<<OpenDiv, BadScript>>),
                   OpenDiv, Hello}}

\* what uglifyjs.minify / css.parse may do with the text they are given
ExtOutcomes == {"ok", "error"}

-----------------------------------------------------------------------------
(* print.ts: the print entry point, as a state machine *)

NoCall == [called |-> FALSE, levelOverride |-> <<>>, indentAdjustment |-> "none",
           before |-> 0, ok |-> TRUE, text |-> "", after |-> 0]

Init ==
    /\ consecutiveCount = 0
    /\ level = 0
    /\ opts = DefaultOptions
    /\ root = Undefined
    /\ kept = <<>>
    /\ idx = 1
    /\ parts = <<>>
    /\ lvls = <<>>
    /\ inds = <<>>
    /\ result = ""
    /\ pc = "idle"
    /\ calls = 0
    /\ prevLevel = 0
    /\ gi = NoCall
    /\ foreign = NoForeign
    /\ sIn = ""
    /\ sRule = "none"
    /\ sOut = ""
    /\ embedded = NoEmbedded

\* a variant of ConstructorLevel that carries the level over from the call before
ConstructorLevelKept(old) == old

\* the constructor: this.level of the new Printer, old being the level the Printer of
\* the call before ended with
ConstructorLevel(old) == 0

\* print, line 1: const printer = new Printer(options)
NewPrinter(inputs, maxCalls) ==
    /\ pc \in {"idle", "done", "failed"}
    /\ calls < maxCalls
    /\ \E in \in inputs :
          /\ root' = in.root
          /\ opts' = in.opts
    /\ prevLevel' = level
    /\ level' = ConstructorLevel(level)
    /\ calls' = calls + 1
    /\ kept' = <<>>
    /\ idx' = 1
    /\ parts' = <<>>
    /\ lvls' = <<>>
    /\ inds' = <<>>
    /\ result' = ""
    /\ pc' = "constructed"
    /\ foreign' = NoForeign
    /\ UNCHANGED <<consecutiveCount, gi>>
    /\ UNCHANGED spacing
    /\ UNCHANGED embedded

\* what .filter(filterLineBreaks) leaves, f being the children kept and the counter
ChildrenFiltered(f) ==
    /\ kept' = f.kept
    /\ consecutiveCount' = f.count

\* print, line 2, on a document: printDocumentNode up to the end of .filter
PrintDocumentNode ==
    /\ pc = "constructed"
    /\ root.type = "document"
    /\ level' = 0
    /\ ChildrenFiltered(FilterChildren(root.children, consecutiveCount))
    /\ idx' = 1
    /\ pc' = "children"
    /\ UNCHANGED <<opts, root, parts, lvls, inds, result, calls, prevLevel, gi, foreign>>
    /\ UNCHANGED spacing
    /\ UNCHANGED embedded

\* what one call of the .map callback leaves, r being what handlePrint returned
ChildPrinted(r) ==
    /\ level' = r.level
    /\ lvls' = Append(lvls, level)
    /\ IF r.ok
       THEN /\ parts' = Append(parts, r.text)
            /\ inds' = Append(inds, r.ind)
            /\ idx' = idx + 1
            /\ pc' = "children"
       ELSE /\ pc' = "failed"
            /\ UNCHANGED <<parts, inds, idx>>

\* one call of the .map callback: handlePrint(child, array[index - 1], array[index + 1])
PrintChild ==
    /\ pc = "children"
    /\ idx <= Len(kept)
    /\ \E ext \in ExtOutcomes :
          /\ ChildPrinted(handlePrint(opts, level, kept[idx], Sibling(kept, idx - 1),
                                      Sibling(kept, idx + 1), ext))
          /\ foreign' = ForeignUse(kept[idx], getIndent(opts, level, <<>>, "none"), ext)
    /\ UNCHANGED <<consecutiveCount, opts, root, kept, result, calls, prevLevel, gi>>
    /\ UNCHANGED spacing
    /\ UNCHANGED embedded

\* .join("") and the return of print
JoinParts ==
    /\ pc = "children"
    /\ idx > Len(kept)
    /\ result' = Join(parts, "")
    /\ pc' = "done"
    /\ UNCHANGED <<consecutiveCount, level, opts, root, kept, idx, parts, lvls, inds,
                   calls, prevLevel, gi, foreign>>
    /\ UNCHANGED spacing
    /\ UNCHANGED embedded

\* what print returns for a node that is no document, r being what handlePrint returned
RootPrinted(r) ==
    /\ level' = r.level
    /\ lvls' = <<level>>
    /\ IF r.ok
       THEN /\ parts' = <<r.text>>
            /\ inds' = <<r.ind>>
            /\ result' = r.text
            /\ pc' = "done"
       ELSE /\ pc' = "failed"
            /\ UNCHANGED <<parts, inds, result>>

\* print, line 2, on a node that is no document: handlePrint(node, undefined, undefined)
PrintRootNode ==
    /\ pc = "constructed"
    /\ root.type # "document"
    /\ \E ext \in ExtOutcomes :
          /\ RootPrinted(handlePrint(opts, level, root, Undefined, Undefined, ext))
          /\ foreign' = ForeignUse(root, getIndent(opts, level, <<>>, "none"), ext)
    /\ UNCHANGED <<consecutiveCount, opts, root, kept, idx, calls, prevLevel, gi>>
    /\ UNCHANGED spacing
    /\ UNCHANGED embedded

Format == PrintDocumentNode \/ PrintChild \/ JoinParts \/ PrintRootNode

\* one print call in a fresh process
Next == NewPrinter(SingleInputs, 1) \/ Format

Spec == Init /\ [][Next]_vars

\* print called MaxCalls times, one call after the other, in one process
NextRepeated == NewPrinter(RepeatedInputs, MaxCalls) \/ Format

SpecRepeated == Init /\ [][NextRepeated]_vars

-----------------------------------------------------------------------------
(* The indentation tracker alone: getIndent called with every argument *)

InitIndent ==
    /\ opts \in AllOptions
    /\ level = 0
    /\ gi = NoCall
    /\ pc = "tracker"
    /\ consecutiveCount = 0 /\ root = Undefined /\ kept = <<>> /\ idx = 1
    /\ parts = <<>> /\ lvls = <<>> /\ inds = <<>> /\ result = "" /\ calls = 0
    /\ prevLevel = 0
    /\ foreign = NoForeign /\ sIn = "" /\ sRule = "none" /\ sOut = ""
    /\ embedded = NoEmbedded

CallGetIndent ==
    /\ pc = "tracker"
    /\ \E levelOverride \in {<<>>} \cup {<<n>> : n \in (0 - MaxLevel)..MaxLevel},
          indentAdjustment \in {"increase", "decrease", "none"} :
          LET r == getIndent(opts, level, levelOverride, indentAdjustment)
          IN  /\ r.level \in (0 - MaxLevel)..MaxLevel
              /\ level' = r.level
              /\ gi' = [called |-> TRUE, levelOverride |-> levelOverride,
                        indentAdjustment |-> indentAdjustment, before |-> level,
                        ok |-> r.ok, text |-> r.text, after |-> r.level]
    /\ UNCHANGED <<consecutiveCount, opts, root, kept, idx, parts, lvls, inds, result, pc,
                   calls, prevLevel, foreign>>
    /\ UNCHANGED spacing
    /\ UNCHANGED embedded

NextIndent == CallGetIndent

SpecIndent == InitIndent /\ [][NextIndent]_vars

-----------------------------------------------------------------------------
(* The spacing rules on their own: each rule applied to a string *)

\* the runs of at most n blanks and line breaks
RECURSIVE WsUpTo(_)
WsUpTo(n) ==
    IF n = 0 THEN {""}
    ELSE WsUpTo(n - 1) \cup {w \o c : w \in WsUpTo(n - 1), c \in {" ", "\n"}}

Opens == {"{{", "{{{", "{{--"}

Closes == {"}}", "}}}", "--}}"}

Exprs == {"x", "{a}", "$$$$"}

Tails == {"", " {{{b}}}"}

\* a span of an opening delimiter, an expression and a closing delimiter with whitespace
\* inside either delimiter, alone or in front of a triple-delimiter span
SpacingInputs ==
    {a \o w1 \o e \o w2 \o b \o t :
        a \in Opens, w1 \in WsUpTo(MaxWs), e \in Exprs, w2 \in WsUpTo(MaxWs), b \in Closes,
        t \in Tails}

InitSpacing ==
    /\ sIn \in SpacingInputs
    /\ sRule = "none"
    /\ sOut = ""
    /\ pc = "spacing"
    /\ consecutiveCount = 0 /\ level = 0 /\ opts = DefaultOptions /\ root = Undefined
    /\ kept = <<>> /\ idx = 1 /\ parts = <<>> /\ lvls = <<>> /\ inds = <<>> /\ result = ""
    /\ calls = 0 /\ prevLevel = 0 /\ gi = NoCall /\ foreign = NoForeign
    /\ embedded = NoEmbedded

\* what a call of a spacing rule leaves
Applied(rule, value) ==
    /\ pc = "spacing"
    /\ sRule' = rule
    /\ sOut' = value
    /\ UNCHANGED <<consecutiveCount, level, opts, root, kept, idx, parts, lvls, inds, result,
                   pc, calls, prevLevel, gi, foreign, sIn, embedded>>

ApplyCommentSpacing == Applied("comment", addEdgeCommentSpacing(sIn))

ApplyMustacheSpacing == Applied("mustache", addEdgeMustacheSpacing(sIn))

ApplySafeMustacheSpacing == Applied("safe", addEdgeSafeMustacheSpacing(sIn))

NextSpacing == ApplyCommentSpacing \/ ApplyMustacheSpacing \/ ApplySafeMustacheSpacing

SpecSpacing == InitSpacing /\ [][NextSpacing]_vars

-----------------------------------------------------------------------------
(* the later formatJS and formatCss, run on their own *)

\* an element handed to formatJS / formatCss by a Printer whose level is lvl
Given(node, lvl) == [NoEmbedded EXCEPT !.node = node, !.levelOverride = lvl]

InitEmbedded ==
    /\ \E n \in BlockEmbeddedPool, lvl \in 0..MaxLevel :
          /\ embedded = Given(n, lvl)
          /\ level = lvl
    /\ opts \in {DefaultOptions, TabOptions}
    /\ pc = "embedded"
    /\ consecutiveCount = 0 /\ root = Undefined
    /\ kept = <<>> /\ idx = 1 /\ parts = <<>> /\ lvls = <<>> /\ inds = <<>> /\ result = ""
    /\ calls = 0 /\ prevLevel = 0 /\ gi = NoCall /\ foreign = NoForeign
    /\ sIn = "" /\ sRule = "none" /\ sOut = ""

\* what a call of formatJS or formatCss leaves, r being what the call did
EmbeddedFormatted(r) ==
    /\ embedded' = [node |-> embedded.node, levelOverride |-> embedded.levelOverride,
                    ok |-> r.ok, text |-> r.text, hidden |-> r.hidden,
                    placeholders |-> r.placeholders, nested |-> r.nested]
    /\ pc' = "formatted"
    /\ UNCHANGED <<consecutiveCount, level, opts, root, kept, idx, parts, lvls, inds, result,
                   calls, prevLevel, gi, foreign>>
    /\ UNCHANGED spacing

\* formatJS(node, this.tabWidth, this.getIndent(), this.getIndent(this.level + 1),
\* options, this.level)
FormatScript ==
    /\ pc = "embedded"
    /\ embedded.node.type = "scriptElement"
    /\ \E ext \in ExtOutcomes :
          EmbeddedFormatted(
              formatJSBlocks(embedded.node, opts.tabWidth,
                             getIndent(opts, level, <<>>, "none").text,
                             getIndent(opts, level, <<level + 1>>, "none").text,
                             opts, embedded.levelOverride, ext,
                             FindWrapper(embedded.node.value, "script", 1)))

\* formatCss(node, this.getIndent(), this.getIndent(this.level + 1), this.getIndent(1),
\* options, this.level)
FormatStyle ==
    /\ pc = "embedded"
    /\ embedded.node.type = "styleElement"
    /\ \E ext \in ExtOutcomes :
          EmbeddedFormatted(
              formatCssBlocks(embedded.node,
                              getIndent(opts, level, <<>>, "none").text,
                              getIndent(opts, level, <<level + 1>>, "none").text,
                              getIndent(opts, level, <<1>>, "none").text,
                              opts, embedded.levelOverride, ext,
                              FindWrapper(embedded.node.value, "style", 1)))

NextEmbedded == FormatScript \/ FormatStyle

SpecEmbedded == InitEmbedded /\ [][NextEmbedded]_vars

-----------------------------------------------------------------------------
(* The properties *)

\* C1: print is a pure function of (tree, options): the text a call returns for a
\* document is the text a fresh process returns for it, whatever calls ran before; in
\* particular the LineBreak children kept do not depend on how an earlier document ended.
C1_FormatIsPure ==
    (pc = "done" /\ root.type = "document") =>
        result = printChildren(opts, 0, FilterChildren(root.children, 0).kept, 1).text

\* C2: at the start of every print call the indent level is 0, whatever level the call
\* before ended at (on an unbalanced tree, on a root that is no document, or by throwing).
C2_LevelZeroAtStart == pc = "constructed" => level = 0

\* a second call starts after a call that ended at a level other than 0
C2_Witness == pc = "constructed" /\ calls >= 2 /\ prevLevel # 0

\* C3: of every run of n consecutive LineBreak children of a document the first
\* min(n, 2) are printed, every other child is printed, and the order is kept.
C3_RunsCapped ==
    (pc \in {"children", "done", "failed"} /\ root.type = "document") =>
        LET c    == root.children
            keep == {i \in 1..Len(c) :
                        ~(/\ i >= 3
                          /\ c[i].type = "linebreak"
                          /\ c[i - 1].type = "linebreak"
                          /\ c[i - 2].type = "linebreak")}
        IN  /\ Len(kept) = Cardinality(keep)
            /\ \A j \in 1..Len(kept) :
                  \E i \in keep : /\ Cardinality({k \in keep : k < i}) = j - 1
                                  /\ kept[j] = c[i]

\* C4: getIndent returns the indent character (tab with useTabs, else space) repeated
\* tabWidth * L times, L being max(levelOverride, 0) with an override and the level
\* before the call without one; afterwards the level is one higher for "increase", one
\* lower for "decrease" and unchanged for "none".
C4_IndentIsCharTimesWidthTimesLevel ==
    (gi.called /\ gi.ok) =>
        LET L == IF gi.levelOverride # <<>> THEN Max(gi.levelOverride[1], 0) ELSE gi.before
        IN  /\ gi.text = Repeat(IF opts.useTabs THEN "\t" ELSE " ", opts.tabWidth * L)
            /\ gi.after = gi.before + (CASE gi.indentAdjustment = "increase" -> 1
                                         [] gi.indentAdjustment = "decrease" -> 0 - 1
                                         [] OTHER -> 0)

\* C5: when a level-raising control-block tag is indented at level L and its end marker
\* follows with only text and flat directives in between, every sibling in between is
\* indented at level L + 1, the end marker at level L, and the level is L afterwards.
C5_BlockBodyOneDeeper ==
    \A i \in 1..Len(inds) : \A k \in (i + 1)..Len(inds) :
        LET after(j)  == IF j < Len(lvls) THEN lvls[j + 1] ELSE level
            kind(j)   == IF kept[j].type = "edgeTag" THEN EdgeTagKind(kept[j].value)
                         ELSE "none"
            between   == (i + 1)..(k - 1)
        IN  (/\ root.type = "document"
             /\ kind(i) = "open"
             /\ kind(k) = "end"
             /\ \A j \in between : kind(j) \in {"none", "flat"} /\ after(j) = lvls[j])
            => /\ \A j \in between : inds[j] # <<>> => inds[j] = <<inds[i][1] + 1>>
               /\ inds[k] = inds[i]
               /\ after(k) = inds[i][1]

\* C6: a control-block tag whose directive is assign, let, inject, debugger, eval, stack,
\* svg, newError, vite, inertia, a single-line include or one without parentheses is
\* printed at the current level and leaves the level as it is; every other directive
\* that is neither an end marker nor an else-like midpoint raises the level by one.
C6_FlatDirectivesKeepLevel ==
    \A j \in 1..Len(inds) :
        LET after == IF j < Len(lvls) THEN lvls[j + 1] ELSE level
            v     == kept[j].value
            flat  == \/ \E d \in {"@assign", "@let", "@inject", "@debugger", "@eval", "@stack",
                                  "@svg", "@newError", "@vite", "@inertia", "@include(",
                                  "@includeIf("} : StartsWith(v, d)
                     \/ ~Includes(v, "(")
        IN  (root.type = "document" /\ kept[j].type = "edgeTag"
             /\ ~StartsWith(v, "@end") /\ ~StartsWith(v, "@else"))
            => IF flat THEN after = lvls[j] /\ inds[j] = <<Max(lvls[j], 0)>>
               ELSE after = lvls[j] + 1

\* C7 as stated: with singleAttributePerLine off an opening or void tag is laid out one
\* item per line exactly when the lengths of the texts of its five prop groups add up
\* to more than printWidth.
C7_ExplodedIffPropTextExceeds ==
    \A j \in 1..Len(parts) :
        LET n == kept[j]
            propText == Len(formatAttributes(n.attributes, ""))
                        + Len(formatEdgeProps(n.edgeProps, ""))
                        + Len(formatEdgeProps(n.edgeMustaches, ""))
                        + Len(formatEdgeTagProps(n.edgeTagProps, ""))
                        + Len(formatComments(n.comments, ""))
        IN  (root.type = "document" /\ n.type \in {"openingTag", "voidTag"}
             /\ ~opts.singleAttributePerLine)
            => ((\E c \in 1..(Len(parts[j]) - 1) : CharAt(parts[j], c) = "\n")
                    <=> propText > opts.printWidth)

\* C7 amended: with singleAttributePerLine off an opening or void tag is laid out one
\* item per line exactly when the texts of its five prop groups joined by single spaces,
\* the four separators counted also beside an empty group, are longer than printWidth.
C7_ExplodedIffJoinedPropsExceed ==
    \A j \in 1..Len(parts) :
        LET n == kept[j]
            joined == Len(formatAttributes(n.attributes, ""))
                      + Len(formatEdgeProps(n.edgeProps, ""))
                      + Len(formatEdgeProps(n.edgeMustaches, ""))
                      + Len(formatEdgeTagProps(n.edgeTagProps, ""))
                      + Len(formatComments(n.comments, ""))
                      + 4
        IN  (root.type = "document" /\ n.type \in {"openingTag", "voidTag"}
             /\ ~opts.singleAttributePerLine)
            => ((\E c \in 1..(Len(parts[j]) - 1) : CharAt(parts[j], c) = "\n")
                    <=> joined > opts.printWidth)

\* a tag whose joined props are exactly printWidth long printed on one line, behind a tag
\* printed one item per line
C7_Witness ==
    /\ pc = "done"
    /\ opts = NarrowOptions
    /\ kept = <<VoidImg, VoidInput>>
    /\ Includes(parts[1], "\n")
    /\ ~Includes(parts[2], "\n")

\* C8: a void tag printed in either layout ends with "/>", and no "</name>" closing tag
\* is printed for it.
C8_VoidTagSelfCloses ==
    \A j \in 1..Len(parts) :
        LET n == IF root.type = "document" THEN kept[j] ELSE root
        IN  n.type = "voidTag"
            => /\ At(TrimEnd(parts[j]), Len(TrimEnd(parts[j])) - 1, "/>")
               /\ ~Includes(parts[j], "</")

\* a void tag printed on one line and a void tag printed one item per line
C8_Witness ==
    /\ pc = "done"
    /\ root.type = "document"
    /\ \E j \in 1..Len(parts) : kept[j].type = "voidTag" /\ Includes(parts[j], "\n")
    /\ \E j \in 1..Len(parts) : kept[j].type = "voidTag" /\ ~Includes(parts[j], "\n")

\* C9: a text immediately followed by a plain interpolation prints with nothing between
\* the two and one newline behind the interpolation; the document of the text "Hello"
\* and "{{name}}" prints as "Hello{{ name }}" and a newline.
C9_TextThenInterpolation ==
    (pc = "done" /\ root = Document(<<Hello, Name>>)) =>
        /\ At(parts[1], Len(parts[1]) - 4, "Hello")
        /\ parts[2] = "{{ name }}\n"
        /\ result = parts[1] \o parts[2]
        /\ (opts = DefaultOptions => result = "Hello{{ name }}\n")

\* the document of "Hello" and "{{name}}" printed with the default options
C9_Witness ==
    /\ pc = "done"
    /\ root = Document(<<Hello, Name>>)
    /\ opts = DefaultOptions
    /\ result = "Hello{{ name }}\n"

\* C10: printing a script or style element whose value has not the shape of
\* <script ...>...</script> or <style ...>...</style> fails and returns no text.
C10_MismatchedWrapperFails ==
    \A j \in 1..Len(parts) :
        LET n == IF root.type = "document" THEN kept[j] ELSE root
        IN  /\ n.type = "scriptElement" => FindWrapper(n.value, "script", 1).found
            /\ n.type = "styleElement" => FindWrapper(n.value, "style", 1).found

\* C11: when the foreign formatter answers an embedded script or style element with an
\* error, the print call fails, returns no text (neither the children printed before nor
\* the element unformatted), and the formatter was asked once for the element.
C11_ForeignErrorFailsWhole ==
    foreign.error => (pc = "failed" /\ result = "" /\ foreign.calls = 1)

\* a call that failed at an embedded element behind a child already printed
C11_Witness == pc = "failed" /\ foreign.error /\ Len(parts) >= 1 /\ result = ""

\* C12: every span the two hiding replacements extract from the content of a script or
\* style element stands in the printed element as often as in the content, with its text
\* unchanged and in the order of the content, and no placeholder token is left.
C12_SpansRoundTrip ==
    \A j \in 1..Len(parts) :
        LET n == IF root.type = "document" THEN kept[j] ELSE root
            tag == IF n.type = "scriptElement" THEN "script" ELSE "style"
            m == FindWrapper(n.value, tag, 1)
            content == SubSeq(n.value, m.gt + 1, m.close - 1)
            P == HideMustaches(content, "__").placeholders
            occ(t, sub) == Cardinality({i \in 1..Len(t) : At(t, i, sub)})
        IN  (n.type \in {"scriptElement", "styleElement"} /\ m.found)
            => /\ ~Includes(parts[j], "MUSTACHE_TAG_")
               /\ \A k \in 1..Len(P) : occ(parts[j], P[k]) = occ(content, P[k])
               /\ \A k \in 1..Len(P) : \A l \in 1..Len(P) :
                     IndexFrom(content, P[k], 1) < IndexFrom(content, P[l], 1)
                        => IndexFrom(parts[j], P[k], 1) < IndexFrom(parts[j], P[l], 1)

\* a script element with a triple-delimiter span and two double-delimiter spans printed
C12_Witness ==
    /\ pc = "done"
    /\ root = MixedScript
    /\ Len(HideMustaches("f({{{ a }}},{{ b }},{{c}})", "__").placeholders) = 3
    /\ Includes(result, "f({{{ a }}},{{ b }},{{c}})")

\* C13: the printed script or style element starts with the opening marker of its value,
\* attributes included, unchanged.
C13_AttributesKept ==
    \A j \in 1..Len(parts) :
        LET n == IF root.type = "document" THEN kept[j] ELSE root
            tag == IF n.type = "scriptElement" THEN "script" ELSE "style"
            m == FindWrapper(n.value, tag, 1)
        IN  (n.type \in {"scriptElement", "styleElement"} /\ m.found)
            => Includes(parts[j], SubSeq(n.value, m.start, m.gt))

\* C14: a script element with a src attribute and an empty body is printed as its value
\* behind the indent, without a line break inside and without a call of the foreign
\* formatter.
C14_ExternalScriptPassedThrough ==
    \A j \in 1..Len(parts) :
        LET n == IF root.type = "document" THEN kept[j] ELSE root
            m == FindWrapper(n.value, "script", 1)
        IN  (/\ n.type = "scriptElement" /\ m.found
             /\ Includes(SubSeq(n.value, m.start, m.gt), " src=")
             /\ Trim(SubSeq(n.value, m.gt + 1, m.close - 1)) = "")
            => /\ TrimStart(parts[j]) = n.value
               /\ ~Includes(parts[j], "\n")
               /\ (j = Len(parts) /\ pc # "failed") => foreign.calls = 0

\* C15: in a document of a block-level opening tag, content and the closing tag, the
\* opening tag's line ends before the content and the closing tag starts a line of its
\* own, whatever the content is and with or without LineBreak children around it.
C15_BlockPartsOnOwnLines ==
    (/\ pc = "done" /\ root.type = "document" /\ Len(kept) >= 3
     /\ kept[1].type = "openingTag" /\ ~isInlineTag(kept[1].tagName)
     /\ kept[Len(kept)].type = "closingTag" /\ kept[Len(kept)].tagName = kept[1].tagName)
    => /\ At(parts[1], Len(parts[1]), "\n") \/ kept[2].type = "linebreak"
       /\ At(parts[Len(kept)], 1, "\n") \/ At(parts[Len(kept) - 1], Len(parts[Len(kept) - 1]), "\n")

\* C16: the double-delimiter rule on "{{" w1 e w2 "}}" and the triple-delimiter rule on
\* "{{{" w1 e w2 "}}}" return the span with exactly one space behind the opening and one
\* before the closing delimiter, whatever runs of whitespace w1 and w2 are (none, one
\* or several characters).
C16_OneSpaceInsideDelimiters ==
    \A w1 \in WsUpTo(MaxWs), w2 \in WsUpTo(MaxWs), e \in {"x", "$$$$"} :
        /\ (sRule = "mustache" /\ sIn = "{{" \o w1 \o e \o w2 \o "}}")
                => sOut = "{{ " \o e \o " }}"
        /\ (sRule = "safe" /\ sIn = "{{{" \o w1 \o e \o w2 \o "}}}")
                => sOut = "{{{ " \o e \o " }}}"

\* the double-delimiter rule applied to a span with a line break and a blank behind the
\* opening delimiter and nothing before the closing one
C16_Witness == sRule = "mustache" /\ sIn = "{{\n x}}" /\ sOut = "{{ x }}"

\* C17: the double-delimiter rule returns a text in which every triple-delimiter span of
\* its input ("{{{", an expression without doubled braces, "}}}") stands unchanged, also
\* when the expression holds brace characters and when double spans stand beside it.
C17_TripleSpansUntouched ==
    sRule = "mustache" =>
        \A i \in 1..Len(sIn) : \A j \in (i + 5)..Len(sIn) :
            (/\ At(sIn, i, "{{{") /\ (i = 1 \/ CharAt(sIn, i - 1) # "{")
             /\ At(sIn, j - 2, "}}}") /\ (j = Len(sIn) \/ CharAt(sIn, j + 1) # "}")
             /\ ~Includes(SubSeq(sIn, i + 3, j - 3), "{{")
             /\ ~Includes(SubSeq(sIn, i + 3, j - 3), "}}"))
            => Includes(sOut, SubSeq(sIn, i, j))

\* C18: each of the three spacing rules returns a string for every input, and applied to
\* the string it returned it returns that string again.
C18_RulesIdempotent ==
    /\ sRule = "comment" => addEdgeCommentSpacing(sOut) = sOut
    /\ sRule = "mustache" => addEdgeMustacheSpacing(sOut) = sOut
    /\ sRule = "safe" => addEdgeSafeMustacheSpacing(sOut) = sOut

\* the text without its blanks, tabs and line breaks
RECURSIVE Squeeze(_, _)
Squeeze(t, i) ==
    LET k == Least({m \in i..Len(t) : IsWs(CharAt(t, m))})
    IN  IF k = 0 THEN SubSeq(t, i, Len(t))
        ELSE SubSeq(t, i, k - 1) \o Squeeze(t, SkipWs(t, k))

\* C19 as stated: a node of an unknown type prints as the empty string, raises no error
\* and leaves the level as it is, and the document prints as the document without it.
C19_UnknownAsIfAbsent ==
    /\ \A j \in 1..Len(lvls) :
          LET n == IF root.type = "document" THEN kept[j] ELSE root
          IN  n.type = "doNotPrint"
              => /\ ~(pc = "failed" /\ j = Len(lvls))
                 /\ parts[j] = ""
                 /\ (IF j < Len(lvls) THEN lvls[j + 1] ELSE level) = lvls[j]
    /\ (pc = "done" /\ root.type = "document")
          => result = printChildren(opts, 0,
                          FilterChildren(SelectSeq(root.children,
                                                   LAMBDA c : c.type # "doNotPrint"), 0).kept,
                          1).text

\* C19 amended: a node of an unknown type prints as the empty string, raises no error and
\* leaves the level as it is; the document prints as the document without it up to the
\* line breaks and indents its two neighbours print, which see it as their neighbour.
C19_UnknownPrintsNothing ==
    /\ \A j \in 1..Len(lvls) :
          LET n == IF root.type = "document" THEN kept[j] ELSE root
          IN  n.type = "doNotPrint"
              => /\ ~(pc = "failed" /\ j = Len(lvls))
                 /\ parts[j] = ""
                 /\ (IF j < Len(lvls) THEN lvls[j + 1] ELSE level) = lvls[j]
    /\ (pc = "done" /\ root.type = "document")
          => Squeeze(result, 1)
                = Squeeze(printChildren(opts, 0,
                              FilterChildren(SelectSeq(root.children,
                                                       LAMBDA c : c.type # "doNotPrint"), 0).kept,
                              1).text, 1)

\* a text, a node of an unknown type and an interpolation: the text ends its line and
\* the interpolation starts the next
C19_Witness ==
    /\ pc = "done"
    /\ root = Document(<<Hello, Unknown, Name>>)
    /\ parts[2] = ""
    /\ result = "Hello\n{{ name }}\n"

\* C20: printing an opening tag raises the level by one and printing a void tag leaves
\* it as it is, in either layout and also when the tag's own indent is suppressed.
C20_OpeningRaisesVoidKeeps ==
    \A j \in 1..Len(parts) :
        LET n == IF root.type = "document" THEN kept[j] ELSE root
            after == IF j < Len(lvls) THEN lvls[j + 1] ELSE level
        IN  /\ n.type = "openingTag" => after = lvls[j] + 1
            /\ n.type = "voidTag" => after = lvls[j]

\* an inline opening tag behind a text, printed without its indent in the
\* one-item-per-line layout
C20_Witness ==
    /\ pc = "done"
    /\ opts = SingleOptions
    /\ kept = <<Hello, OpenSpan>>
    /\ inds[2] = <<>>
    /\ lvls[2] = 0
    /\ level = 1

\* C21: a closing tag lowers the level by one; a block-level one is indented at the
\* lowered level, the level of the opening tag it closes; an inline one is printed as
\* "</name>" with nothing before it, unless the sibling before it is a LineBreak or a
\* control-block tag: then it is indented at the lowered level too.
C21_ClosingLowersAndAligns ==
    root.type = "document" =>
        \A j \in 1..Len(parts) :
            LET n      == kept[j]
                after  == IF j < Len(lvls) THEN lvls[j + 1] ELSE level
                forced == Sibling(kept, j - 1).type \in {"linebreak", "edgeTag"}
            IN  n.type = "closingTag" =>
                    /\ after = lvls[j] - 1
                    /\ (lvls[j] >= 1 /\ (~isInlineTag(n.tagName) \/ forced))
                          => inds[j] = <<lvls[j] - 1>>
                    /\ (isInlineTag(n.tagName) /\ ~forced) => parts[j] = "</" \o n.tagName \o ">"
                    /\ \A i \in 1..(j - 1) :
                          (/\ kept[i].type = "openingTag" /\ kept[i].tagName = n.tagName
                           /\ ~isInlineTag(n.tagName)
                           /\ lvls[j] = lvls[i] + 1
                           /\ \A k \in (i + 1)..j : lvls[k] > lvls[i])
                          => inds[j] = inds[i]

\* C22: an else-like midpoint is indented at the current level minus one and leaves the
\* level as it is, so a text behind it is indented like a text before it; an end marker
\* is indented at the current level minus one and lowers the level by one.
C22_MidpointKeepsEndLowers ==
    root.type = "document" =>
        \A j \in 1..Len(parts) :
            LET after == IF j < Len(lvls) THEN lvls[j + 1] ELSE level
                kind  == IF kept[j].type = "edgeTag" THEN EdgeTagKind(kept[j].value) ELSE "none"
            IN  /\ kind = "else" =>
                    /\ inds[j] = <<Max(lvls[j] - 1, 0)>>
                    /\ after = lvls[j]
                    /\ (j > 1 /\ j < Len(parts) /\ kept[j - 1].type = "htmlText"
                         /\ kept[j + 1].type = "htmlText") => inds[j + 1] = inds[j - 1]
                /\ kind = "end" =>
                    /\ inds[j] = <<Max(lvls[j] - 1, 0)>>
                    /\ after = lvls[j] - 1

\* an else between the two branches of an if, each branch a text one level deeper
C22_Witness ==
    /\ pc = "done"
    /\ opts = DefaultOptions
    /\ kept = <<IfTag, Hello, ElseTag, Hello>>
    /\ lvls = <<0, 1, 1, 1>>
    /\ inds = <<<<0>>, <<1>>, <<0>>, <<1>>>>
    /\ parts[3] = "@else\n"
    /\ level = 1

\* index behind the directive that starts with the "@" at k
DirectiveEnd(s, k) ==
    IF BlockNameEnd(s, k, FALSE) = 0 THEN k + 1 ELSE ArgsEnd(s, BlockNameEnd(s, k, FALSE))

\* how printEdgeTagNode classifies the directive that starts with the "@" at k
DirectiveKind(s, k) == EdgeTagKind(SubSeq(s, k, DirectiveEnd(s, k) - 1))

\* the directives of span from index i on, d blocks being open before i, open and close
\* blocks so that the block opened first is closed by an end marker that ends the span;
\* k is where the next directive starts
RECURSIVE ClosesAtEnd(_, _, _)
RECURSIVE ClosesAtEndAt(_, _, _)
ClosesAtEndAt(span, d, k) ==
    IF k = 0 THEN FALSE
    ELSE IF DirectiveKind(span, k) = "open" THEN ClosesAtEnd(span, DirectiveEnd(span, k), d + 1)
    ELSE IF DirectiveKind(span, k) = "end"
         THEN (IF d <= 1 THEN d = 1 /\ k + 3 = Len(span) ELSE ClosesAtEnd(span, k + 4, d - 1))
    ELSE ClosesAtEnd(span, DirectiveEnd(span, k), d)

ClosesAtEnd(span, i, d) == ClosesAtEndAt(span, d, IndexFrom(span, "@", i))

\* C23: every span that the later formatJS and formatCss hide as a control block runs
\* from an opening directive to the end marker that balances it, also when blocks are
\* nested in it, and does not start with a keyword of the single-line directives.
C23_BlockSpansBalanced ==
    pc = "formatted" =>
        \A n \in 1..Len(embedded.placeholders) :
            Includes(embedded.hidden, "/*__EDGE_TAG_BLOCK_" \o ToString(n - 1) \o "__*/")
            => /\ ClosesAtEnd(embedded.placeholders[n], 1, 0)
               /\ \A a \in 1..Len(singleLineKeywords) :
                     ~StartsWith(embedded.placeholders[n], "@" \o singleLineKeywords[a])

\* C24: every control block of a script or style element is printed again by a Printer
\* constructed at the level of the Printer that prints the element plus two, and that
\* Printer's level is afterwards what it was.
C24_BlocksReprintedTwoDeeper ==
    (pc = "formatted" /\ embedded.ok)
    => /\ \A k \in 1..Len(embedded.nested) : embedded.nested[k] = embedded.levelOverride + 2
       /\ level = embedded.levelOverride

\* C25: a text of the shape of a placeholder that the author wrote in the content of a
\* script or style element (a prefix __MUSTACHE_TAG_ or __SAFE_MUSTACHE_TAG_, digits and
\* the suffix) is in the printed element as it was written: restoring the placeholders
\* does not replace it.
C25_AuthoredPlaceholderKept ==
    \A j \in 1..Len(parts) :
        LET n   == IF root.type = "document" THEN kept[j] ELSE root
            tag == IF n.type = "scriptElement" THEN "script" ELSE "style"
            suf == IF n.type = "scriptElement" THEN "__" ELSE "__;"
            m   == FindWrapper(n.value, tag, 1)
            c   == SubSeq(n.value, m.gt + 1, m.close - 1)
        IN  (n.type \in {"scriptElement", "styleElement"} /\ m.found)
            => \A pre \in {"__MUSTACHE_TAG_", "__SAFE_MUSTACHE_TAG_"} : \A k \in 1..Len(c) :
                  IsPlaceholderAt(c, k, pre, suf)
                  => Includes(parts[j], SubSeq(c, k, SkipDigits(c, k + Len(pre)) + Len(suf) - 1))

\* C26: a LineBreak child that stands between two siblings of which neither is a text
\* nor an interpolation prints nothing; every other LineBreak child that the run cap
\* keeps prints its value.
C26_IsolatedBreakDropped ==
    root.type = "document" =>
        \A j \in 1..Len(parts) :
            LET content(n) == n.type = "htmlText" \/ IsMustache(n)
                isolated   == /\ j > 1 /\ j < Len(kept)
                              /\ ~content(kept[j - 1]) /\ ~content(kept[j + 1])
            IN  kept[j].type = "linebreak" =>
                    parts[j] = (IF isolated THEN "" ELSE kept[j].value)

\* C27: the level of the Printer is never below 0.
C27_LevelNeverNegative == level >= 0

\* C28: a text, comment, interpolation or tag that follows a closing tag or an end
\* marker printed at level 0 is printed: the call does not fail in getIndent.
C28_IndentNeverFails ==
    root.type = "document" =>
        \A j \in 2..Len(lvls) :
            (/\ lvls[j - 1] = 0 /\ lvls[j] < 0
             /\ kept[j].type \in {"htmlText", "htmlComment", "edgeComment", "edgeMustache",
                                   "openingTag", "voidTag"})
            => j <= Len(parts)

\* the children from k on close every opening tag by a closing tag of its name and every
\* level-raising control-block tag by an end marker, properly nested; open holds what
\* is still to be closed, the innermost first
RECURSIVE ProperlyNested(_, _, _)
ProperlyNested(children, k, open) ==
    IF k > Len(children) THEN open = <<>>
    ELSE IF children[k].type = "openingTag"
         THEN ProperlyNested(children, k + 1, <<children[k].tagName>> \o open)
    ELSE IF children[k].type = "closingTag"
         THEN /\ open # <<>>
              /\ Head(open) = children[k].tagName
              /\ ProperlyNested(children, k + 1, Tail(open))
    ELSE IF children[k].type = "edgeTag" /\ EdgeTagKind(children[k].value) = "open"
         THEN ProperlyNested(children, k + 1, <<"@end">> \o open)
    ELSE IF children[k].type = "edgeTag" /\ EdgeTagKind(children[k].value) = "end"
         THEN /\ open # <<>>
              /\ Head(open) = "@end"
              /\ ProperlyNested(children, k + 1, Tail(open))
    ELSE ProperlyNested(children, k + 1, open)

\* C29: when a document whose opening tags and level-raising control-block tags are all
\* closed, properly nested, has been printed, the level is 0, whatever stands in between.
C29_BalancedEndsAtZero ==
    (pc = "done" /\ root.type = "document" /\ ProperlyNested(kept, 1, <<>>)) => level = 0

\* an if with an else inside a div, with a text before and a LineBreak behind the block
C29_Witness ==
    /\ pc = "done"
    /\ kept = <<OpenDiv, Hello, IfTag, ElseTag, EndTag, LineBreak, CloseDiv>>
    /\ ProperlyNested(kept, 1, <<>>)
    /\ lvls = <<0, 1, 1, 2, 2, 1, 1>>
    /\ level = 0

\* C30: an opening or void tag without attributes, props and comments is printed as
\* "<name>" or "<name />" on one line, also with singleAttributePerLine.
C30_BareTagOnOneLine ==
    \A j \in 1..Len(parts) :
        LET n == IF root.type = "document" THEN kept[j] ELSE root
        IN  (/\ n.type \in {"openingTag", "voidTag"}
             /\ n.attributes = <<>> /\ n.edgeProps = <<>> /\ n.edgeTagProps = <<>>
             /\ n.edgeMustaches = <<>> /\ n.comments = <<>>)
            => Includes(parts[j], "<" \o n.tagName
                                     \o (IF n.type = "voidTag" THEN " />" ELSE ">"))

====
